---- MODULE Spec2Model ----
(***************************************************************************)
(* A model of the protocol decoders and session state machines of          *)
(* glucometerutils.                                                        *)
(*                                                                         *)
(*  Part 1: the LifeScan OneTouch UltraEasy link-control session           *)
(*          (glucometerutils/drivers/otultraeasy.py).                      *)
(*  Part 2: the Bayer Contour LIS1-A / LIS2-A2 transfer                    *)
(*          (glucometerutils/support/lis.py, drivers/bacontour.py).        *)
(*                                                                         *)
(* Bytes are the integers 0..255, byte strings are sequences of bytes.     *)
(***************************************************************************)
EXTENDS Integers, Sequences, FiniteSets, TLC

(***************************************************************************)
(* Generic helpers on integers and byte strings.                           *)
(***************************************************************************)
Min(a, b) == IF a < b THEN a ELSE b

\* Python slice s[i:] for i >= 0 (0-based i).
Drop(s, n) == SubSeq(s, Min(n, Len(s)) + 1, Len(s))

\* Python slice s[:n] for n >= 0.
Take(s, n) == SubSeq(s, 1, Min(n, Len(s)))

RECURSIVE BitXor(_, _)
BitXor(a, b) ==
  IF a = 0 THEN b
  ELSE IF b = 0 THEN a
  ELSE ((a + b) % 2) + 2 * BitXor(a \div 2, b \div 2)

\* bool(value & bitmask) for a one-bit mask.
TestBit(value, bitmask) == (value \div bitmask) % 2 = 1

\* value |= bitmask  /  value &= ~bitmask, for a one-bit mask.
SetBit(value, bitmask, on) ==
  IF on THEN (IF TestBit(value, bitmask) THEN value ELSE value + bitmask)
        ELSE (IF TestBit(value, bitmask) THEN value - bitmask ELSE value)

RECURSIVE SumBytes(_)
SumBytes(s) == IF s = <<>> THEN 0 ELSE s[1] + SumBytes(Tail(s))

(***************************************************************************)
(* support/lifescan.py: crc_ccitt                                          *)
(***************************************************************************)
\* The loop's body without its first line, the swap of the two bytes.
crc_step_NoSwap(crc, byte) ==
  LET c2 == BitXor(crc, byte)
      c3 == BitXor(c2, (c2 % 256) \div 16)
      c4 == BitXor(c3, (((c3 * 256) % 65536) * 16) % 65536)
      c5 == BitXor(c4, (c4 % 256) * 32)
  IN  c5

crc_step(crc, byte) ==
  LET c1 == ((crc \div 256) % 65536) + ((crc * 256) % 65536)
      c2 == BitXor(c1, byte)
      c3 == BitXor(c2, (c2 % 256) \div 16)
      c4 == BitXor(c3, (((c3 * 256) % 65536) * 16) % 65536)
      c5 == BitXor(c4, (c4 % 256) * 32)
  IN  c5

RECURSIVE crc_from(_, _)
crc_from(crc, data) ==
  IF data = <<>> THEN crc ELSE crc_from(crc_step(crc, data[1]), Tail(data))

crc_ccitt(data) == crc_from(65535, data) % 65536

(***************************************************************************)
(* drivers/otultraeasy.py: constants                                       *)
(***************************************************************************)
STX == 2
ETX == 3
BIT_SENT_COUNTER == 1
BIT_EXPECT_RECEIVE == 2
BIT_ACK == 4
BIT_DISCONNECT == 8
BIT_MORE == 16

\* _READ_RECORD: the command prefix of a record request.
READ_RECORD == <<5, 31>>

(***************************************************************************)
(* drivers/otultraeasy.py: _Packet                                         *)
(***************************************************************************)
\* _Packet.build_command followed by the four link-control setters and
\* update_checksum, as _send_command applies them.
PacketControl(sc, er, ack, disc) ==
  SetBit(SetBit(SetBit(SetBit(0, BIT_SENT_COUNTER, sc),
                       BIT_EXPECT_RECEIVE, er), BIT_ACK, ack),
         BIT_DISCONNECT, disc)

build_command(cmd_bytes, control) ==
  <<STX, 6 + Len(cmd_bytes), control>> \o cmd_bytes \o <<ETX, 0, 0>>

\* The CRCs of the frame contents that occur most, computed once; a lookup
\* gives the value crc_ccitt computes.
CrcMemo ==
  [b \in {<<STX, 6 + Len(p), c>> \o p \o <<ETX>> :
            p \in {<<>>, <<5, 6>>, <<5, 31, 245, 1>>}, c \in 0..31}
     |-> crc_ccitt(b)]

\* _Packet.checksum: the CRC of everything before the two checksum bytes.
PacketChecksum(cmd) ==
  LET b == SubSeq(cmd, 1, Len(cmd) - 2)
  IN  IF b \in DOMAIN CrcMemo THEN CrcMemo[b] ELSE crc_ccitt(b)

\* _Packet.update_checksum: struct '<H' packed into the last two bytes.
update_checksum(cmd) ==
  LET checksum == PacketChecksum(cmd)
  IN  SubSeq(cmd, 1, Len(cmd) - 2) \o <<checksum % 256, checksum \div 256>>

\* The 16-bit little-endian value carried in the last two bytes.
ReceivedChecksum(cmd) == cmd[Len(cmd) - 1] + 256 * cmd[Len(cmd)]

\* _Packet.validate_checksum: TRUE when it raises InvalidChecksum.
validate_checksum_raises(cmd) == ReceivedChecksum(cmd) # PacketChecksum(cmd)

\* _Packet.data
PacketData(cmd) == SubSeq(cmd, 4, Len(cmd) - 3)

\* _Packet.read_from(serial): reads 3 bytes, the payload the length byte
\* announces, then 3 bytes.  serial.read(n) returns at most n bytes (fewer
\* on a timeout).  The result names the bytes read, the bytes left in the
\* stream and the exception raised ("none" when the frame is structurally
\* sound).  lifescan_command is not a name bound in otultraeasy.py, so the
\* two raise statements end in NameError before MalformedCommand is built.
read_from(stream) ==
  LET h    == Take(stream, 3)
      r1   == Drop(stream, 3)
      n    == IF Len(h) >= 2 /\ h[2] > 6 THEN h[2] - 6 ELSE 0
      body == Take(r1, n)
      r2   == Drop(r1, n)
      t    == Take(r2, 3)
      r3   == Drop(r2, 3)
      cmd  == h \o body \o t
  IN  IF Len(h) = 0 THEN [cmd |-> h, rest |-> r1, raised |-> "IndexError"]
      ELSE IF h[1] # STX THEN [cmd |-> h, rest |-> r1, raised |-> "NameError"]
      ELSE IF Len(h) < 2 THEN [cmd |-> h, rest |-> r1, raised |-> "IndexError"]
      ELSE IF Len(cmd) < 3 THEN [cmd |-> cmd, rest |-> r3, raised |-> "IndexError"]
      ELSE IF cmd[Len(cmd) - 2] # ETX
             THEN [cmd |-> cmd, rest |-> r3, raised |-> "NameError"]
      ELSE [cmd |-> cmd, rest |-> r3, raised |-> "none"]

(***************************************************************************)
(* drivers/otultraeasy.py: Device                                          *)
(*                                                                         *)
(* A device value `d` is a record of the two session counters, the bytes   *)
(* still to be read from the serial line, the frames written to it, the    *)
(* exception that ended the running call ("none" when it returned) and a   *)
(* log with one entry per finished call of _read_response / _send_command. *)
(***************************************************************************)
\* Device.__init__
NewDevice(input) ==
  [sent_counter_ |-> FALSE, expect_receive_ |-> FALSE,
   serial_in |-> input, serial_out |-> <<>>, raised |-> "none", log |-> <<>>]

\* The frames written since the call that started in device value `d0`.
WrittenSince(d0, d) == SubSeq(d.serial_out, Len(d0.serial_out) + 1, Len(d.serial_out))

\* Line 211: the sequence check of _read_response.
SequenceMismatch(control, expect_receive) ==
  /\ ~TestBit(control, BIT_DISCONNECT)
  /\ TestBit(control, BIT_SENT_COUNTER) # expect_receive

\* A driver that answers every frame, acknowledgements included.
NeedsAck_Always(control) == TRUE

\* Lines 216 and 221: a frame without the acknowledge bit is answered.
NeedsAck(control) == ~TestBit(control, BIT_ACK)

\* Lines 216-217: expect_receive_ after a frame passed the sequence check.
NextExpectReceive(control, expect_receive) ==
  IF NeedsAck(control) THEN ~expect_receive ELSE expect_receive

\* A driver that counts every frame it writes, acknowledgements included.
NextSentCounter_Always(acknowledge, sent_counter) == ~sent_counter

\* Lines 241-242: sent_counter_ after a frame was written.
NextSentCounter(acknowledge, sent_counter) ==
  IF ~acknowledge THEN ~sent_counter ELSE sent_counter

\* Lines 227-236: the frame _send_command builds.
CommandFrame(d, cmd_bytes, acknowledge, disconnect) ==
  update_checksum(build_command(cmd_bytes,
      PacketControl(d.sent_counter_, d.expect_receive_, acknowledge, disconnect)))

RECURSIVE _read_response(_), _send_command(_, _, _, _)

ReadEntry(d0, d, response, raised) ==
  [fn |-> "_read_response", response |-> response, raised |-> raised,
   sc_before |-> d0.sent_counter_, er_before |-> d0.expect_receive_,
   sc_after |-> d.sent_counter_, er_after |-> d.expect_receive_,
   written |-> WrittenSince(d0, d)]

SendEntry(d0, d, frame, acknowledge, raised) ==
  [fn |-> "_send_command", frame |-> frame, acknowledge |-> acknowledge,
   raised |-> raised,
   sc_before |-> d0.sent_counter_, er_before |-> d0.expect_receive_,
   sc_after |-> d.sent_counter_, er_after |-> d.expect_receive_,
   written |-> WrittenSince(d0, d)]

\* Device._read_response (lines 206-224).
_read_response(d0) ==
  LET rd == read_from(d0.serial_in)
      d1 == [d0 EXCEPT !.serial_in = rd.rest]
      control == rd.cmd[3]
      End(d, raised) ==
        [d EXCEPT !.raised = raised,
                  !.log = Append(@, ReadEntry(d0, d, rd.cmd, raised))]
  IN  IF rd.raised # "none" THEN End(d1, rd.raised)
      ELSE IF SequenceMismatch(control, d1.expect_receive_)
        THEN End(d1, "NameError")
      ELSE
        LET d2 == [d1 EXCEPT !.expect_receive_ = NextExpectReceive(control, @)]
        IN  IF validate_checksum_raises(rd.cmd) THEN End(d2, "InvalidChecksum")
            ELSE IF NeedsAck(control)
              THEN End(_send_command(d2, <<>>, TRUE, FALSE), "none")
            ELSE End(d2, "none")

\* Device._send_command (lines 226-244).
_send_command(d0, cmd_bytes, acknowledge, disconnect) ==
  LET frame == CommandFrame(d0, cmd_bytes, acknowledge, disconnect)
      d1 == [d0 EXCEPT !.serial_out = Append(@, frame),
                       !.sent_counter_ = NextSentCounter(acknowledge, @)]
      d2 == IF ~acknowledge THEN _read_response(d1) ELSE d1
  IN  [d2 EXCEPT !.log = Append(@, SendEntry(d0, d2, frame, acknowledge, d2.raised))]

\* Device.connect (lines 200-201); Device.disconnect calls it (203-204).
connect(d) == _send_command(d, <<>>, FALSE, TRUE)

\* Device._get_reading (lines 305-309).
_get_reading(d, record_id) ==
  LET d1 == _send_command(d, READ_RECORD \o <<record_id % 256, record_id \div 256>>,
                          FALSE, FALSE)
  IN  IF d1.raised # "none" THEN d1 ELSE _read_response(d1)

(***************************************************************************)
(* The frames the meter may put on the serial line.                        *)
(***************************************************************************)
\* Link-control bytes of incoming frames: every combination of the sequence,
\* acknowledge and disconnect bits, and two with the remaining bits set.
RxControls == {0, 1, 4, 5, 8, 9, 12, 13, 2, 17}

\* Payloads of incoming frames: none, and a two-byte reply.
RxPayloads == {<<>>, <<5, 6>>}

RxWellFormed ==
  {update_checksum(build_command(p, c)) : p \in RxPayloads, c \in RxControls}

\* One byte of a frame replaced (1-based position i).
Corrupt(f, i, v) == [f EXCEPT ![i] = v]

\* Frames whose checksum field does not match their contents.
RxBadChecksum == {Corrupt(f, Len(f), (f[Len(f)] + 1) % 256) : f \in RxWellFormed}

\* Frames with a bad STX, a bad ETX, or a length byte that is too large, and
\* reads cut short by the timeout.
RxBroken ==
  LET f == update_checksum(build_command(<<>>, 4))
      g == update_checksum(build_command(<<5, 6>>, 0))
  IN  {Corrupt(f, 1, 0), Corrupt(g, 1, 6), Corrupt(f, 4, 0), Corrupt(g, 6, 2),
       Corrupt(f, 2, 8)}
      \cup {Take(f, n) : n \in 0..5}

RxFrames == RxWellFormed \cup RxBadChecksum \cup RxBroken

\* The second frame of a two-frame reply.
RxSecond ==
  {update_checksum(build_command(p, c)) : p \in RxPayloads, c \in {0, 1, 4, 9}}
  \cup {Corrupt(update_checksum(build_command(<<5, 6>>, c)), 8, 0) : c \in {0, 1}}
  \cup {<<>>}

\* The first frame of a two-frame reply: acknowledgements in and out of
\* sequence, data in place of the acknowledgement, damaged frames, silence.
RxFirst ==
  {update_checksum(build_command(<<>>, c)) : c \in {4, 5, 12, 0, 1}}
  \cup {Corrupt(update_checksum(build_command(<<>>, c)), 6, 0) : c \in {4, 1}}
  \cup {Corrupt(update_checksum(build_command(<<>>, 5)), 1, 0), <<>>}

\* The record number _get_reading asks for: _INVALID_RECORD, which queries
\* the record count.
RecordIds == {501}

(***************************************************************************)
(* State of the UltraEasy session.                                         *)
(***************************************************************************)
VARIABLES
  sent_counter_,     \* Device.sent_counter_
  expect_receive_,   \* Device.expect_receive_
  serial_in,         \* bytes the last operation left unread
  serial_out,        \* frames the last operation wrote
  ue_raised,         \* exception that ended the last operation, or "none"
  ue_log,            \* the calls of the last operation, in order of return
  ue_op,             \* the last operation
  lis_pc,            \* where the Contour's connect() stands
  previous_frame_number,  \* local of _parse_lis1a_transfer_frames
  frames,            \* local of _parse_lis1a_transfer_frames
  _version_number,   \* bacontour.Device._version_number
  _serial_number,    \* bacontour.Device._serial_number
  _glucose_unit,     \* bacontour.Device._glucose_unit
  _readings,         \* bacontour.Device._readings
  lis_raised,        \* exception that ended connect(), or "none"
  lis_io,            \* the reads and writes of the last step, in order
  lis_accepted,      \* the frames the transfer accepted, as received
  lis_records,       \* what _parse_lis2a2_message was called with
  lis_call,          \* the last call of _parse_lis1a_transfer_frame by itself
  hid_reports,       \* what _read() returned to the last _read_lis1a_frame
  tlv_result,        \* what the last _read_lis1a_frame came to
  cu_driver,         \* the class of the device, one of Drivers
  state,             \* ContourHidDevice.state
  currecno,          \* ContourHidDevice.currecno
  tometer,           \* local of sync()
  result,            \* local of sync()
  foo,               \* local of sync()
  cu_pc,             \* where the call of the Contour USB driver stands
  cu_reads,          \* the calls of read() of the call so far
  cu_accepted,       \* the texts checkframe returned to sync(), in order
  cu_yielded,        \* the values sync() yielded, in order
  cu_io,             \* the last step: its reply, what it met, what it wrote
  _text_message_type,        \* FreeStyleHidSession._text_message_type
  _text_reply_message_type,  \* FreeStyleHidSession._text_reply_message_type
  fs_call,           \* the call of the session under way, or the last one
  fs_pc,             \* where it stands: reading, returned, raised
  full_content,      \* local of send_text_command, empty in other calls
  fs_written,        \* the reports the call wrote, in order
  fs_read,           \* the reports the call read, in order
  fs_result,         \* what the call returned or raised
  mr_content,        \* the reply send_text_command gathers for the query
  mr_result,         \* what query_multirecord returned or raised
  sd_serial,         \* the bytes the meter sends to wait_and_ready
  sd_written,        \* the packets wait_and_ready wrote, in order
  sd_result,         \* what wait_and_ready returned or raised
  pkt_decoder,       \* the driver whose _PACKET parsed last
  pkt_frame,         \* a frame that _PACKET accepts
  pkt_at,            \* the place of the byte replaced in it, 0 for none
  pkt_parsed,        \* the frame as parsed, that byte replaced
  pkt_result,        \* what parsing it came to
  ot_line,           \* the line _validate_and_strip_checksum was given
  ot_stripped,       \* what it returned or raised
  ot_data,           \* the lines readlines() gave get_readings
  ot_readings,       \* what get_readings yielded, and what it raised
  lb_record,         \* the record _parse_arresult was given
  lb_parsed,         \* what it returned or raised
  lb_history,        \* the rows of $history?
  lb_arresult,       \* the rows of $arresult?
  lb_readings,       \* what LibreDevice.get_readings yielded, and what it raised
  vo_call,           \* otverio2015: which way the framing was applied
  vo_cmd,            \* otverio2015: the command handed to _encode_message
  vo_register,       \* otverio2015: the register written or read
  vo_response,       \* otverio2015: what _extract_message gave
  vo_rebuilt,        \* otverio2015: what _encode_message made of the response
  cc_data,           \* lifescan.crc_ccitt: the byte values it is applied to, none before the call
  cc_bytes,          \* lifescan.crc_ccitt: its result for a bytes object
  cc_array,          \* lifescan.crc_ccitt: its result for an array of the same values
  cv_call,           \* conversions: the function applied, none before the call
  td_message,        \* td42xx._parse_datetime: its message
  td_datetime,       \* td42xx._parse_datetime: its outcome
  kt_raw,            \* ketone conversion: the raw value read from the device
  kt_value,          \* ketone conversion: the value in mmol/L, as a fraction
  gu_value,          \* convert_glucose_unit: the value, in hundredths of its unit
  gu_from,           \* convert_glucose_unit: the unit A, a string object
  gu_to,             \* convert_glucose_unit: the unit B, a string object or None
  gu_first,          \* convert_glucose_unit: the outcome of converting from A to B
  gu_second,         \* convert_glucose_unit: the outcome of converting that back to A
  ts_raw,            \* Verio timestamp: the raw 32-bit value
  ts_datetime,       \* Verio timestamp: the date and time it decodes to
  ck_decoder,        \* checksum errors: the decoder applied, none before the call
  ck_frame,          \* checksum errors: the frame it was given
  ck_error,          \* checksum errors: the exception it raised, with its arguments
  ue_k,              \* complete exchanges since connect(): -1 before it, -2 once the run broke
  ue_handshake,      \* what connect() read in reply: none, ack or data
  lg_pc,             \* where the generator of get_readings is suspended
  lg_sent,           \* the commands query_multirecord was called with, in order
  lg_history,        \* what query_multirecord came to for $history?
  lg_arresult,       \* what query_multirecord came to for $arresult?
  lg_row,            \* the row the running loop took last
  lg_yielded,        \* the readings yielded, with the reply and row of each
  lg_raised          \* the exception that ended the generator, or none

ueVars == <<sent_counter_, expect_receive_, serial_in, serial_out,
            ue_raised, ue_log, ue_op>>

lisVars == <<lis_pc, previous_frame_number, frames, _version_number,
             _serial_number, _glucose_unit, _readings, lis_raised, lis_io,
             lis_accepted, lis_records, lis_call>>

tlvVars == <<hid_reports, tlv_result>>
fsVars == <<_text_message_type, _text_reply_message_type, fs_call, fs_pc,
            full_content, fs_written, fs_read, fs_result>>
cuVars == <<cu_driver, state, currecno, tometer, result, foo, cu_pc,
            cu_reads, cu_accepted, cu_yielded, cu_io>>
mrVars == <<mr_content, mr_result>>
sdVars == <<sd_serial, sd_written, sd_result, pkt_decoder, pkt_frame, pkt_at, pkt_parsed, pkt_result>>
otVars == <<ot_line, ot_stripped, ot_data, ot_readings>>
libreVars == <<lb_record, lb_parsed, lb_history, lb_arresult, lb_readings>>
verioVars == <<vo_call, vo_cmd, vo_register, vo_response, vo_rebuilt>>
crcVars == <<cc_data, cc_bytes, cc_array>>
convVars == <<cv_call, td_message, td_datetime>>
ktVars == <<kt_raw, kt_value>>
guVars == <<gu_value, gu_from, gu_to, gu_first, gu_second>>
tsVars == <<ts_raw, ts_datetime>>
ckVars == <<ck_decoder, ck_frame, ck_error>>
ssVars == <<ue_k, ue_handshake>>
lgVars == <<lg_pc, lg_sent, lg_history, lg_arresult, lg_row, lg_yielded, lg_raised>>

UltraEasyInit ==
  /\ sent_counter_ = FALSE
  /\ expect_receive_ = FALSE
  /\ serial_in = <<>>
  /\ serial_out = <<>>
  /\ ue_raised = "none"
  /\ ue_log = <<>>
  /\ ue_op = "__init__"

\* The device as an operation finds it: the counters as they are, an empty
\* output record, and `input` waiting on the serial line.
Device(input) ==
  [sent_counter_ |-> sent_counter_, expect_receive_ |-> expect_receive_,
   serial_in |-> input, serial_out |-> <<>>, raised |-> "none", log |-> <<>>]

Becomes(d, name) ==
  /\ sent_counter_' = d.sent_counter_
  /\ expect_receive_' = d.expect_receive_
  /\ serial_in' = d.serial_in
  /\ serial_out' = d.serial_out
  /\ ue_raised' = d.raised
  /\ ue_log' = d.log
  /\ ue_op' = name

UE_new == Becomes(NewDevice(<<>>), "__init__")

UE_connect == \E rx \in RxFrames : Becomes(connect(Device(rx)), "connect")

UE_disconnect == \E rx \in RxFrames : Becomes(connect(Device(rx)), "disconnect")

UE_read_response ==
  \E rx \in RxFrames : Becomes(_read_response(Device(rx)), "_read_response")

UE_send_ack ==
  Becomes(_send_command(Device(<<>>), <<>>, TRUE, FALSE), "_send_command")

UE_get_reading ==
  \E id \in RecordIds, rx1 \in RxFirst, rx2 \in RxSecond :
    Becomes(_get_reading(Device(rx1 \o rx2), id), "_get_reading")

UltraEasyNext ==
  /\ \/ UE_new
     \/ UE_connect
     \/ UE_disconnect
     \/ UE_read_response
     \/ UE_send_ack
     \/ UE_get_reading
  /\ UNCHANGED <<lisVars, tlvVars, cuVars, fsVars, mrVars, sdVars, otVars, libreVars, verioVars, crcVars, convVars, ktVars, guVars, tsVars, ckVars, ssVars, lgVars>>

vars == <<ueVars, lisVars, tlvVars, cuVars, fsVars, mrVars, sdVars, otVars, libreVars, verioVars, crcVars, convVars, ktVars, guVars, tsVars, ckVars, ssVars, lgVars>>

(***************************************************************************)
(* Properties of the UltraEasy session.                                    *)
(***************************************************************************)
ReadCalls == {i \in 1..Len(ue_log) : ue_log[i].fn = "_read_response"}
SendCalls == {i \in 1..Len(ue_log) : ue_log[i].fn = "_send_command"}

\* The bytes a call of _read_response read form a frame: STX, ETX in place.
IsFrame(bytes) == read_from(bytes).raised = "none"

SequenceBit(frame) == TestBit(frame[3], BIT_SENT_COUNTER)

\* The frame is an ACK frame as the driver writes it: no payload, the
\* acknowledge bit set.
IsAckFrame(frame) ==
  /\ IsFrame(frame)
  /\ PacketData(frame) = <<>>
  /\ TestBit(frame[3], BIT_ACK)

\* C1: _read_response accepts a frame only if its sequence-number bit equals
\* expect_receive_; for every received frame whose sequence-number bit
\* differs it raises MalformedCommand, returns no response and sends no ACK.
C1_SequenceChecked ==
  \A i \in ReadCalls :
    LET e == ue_log[i]
    IN  IsFrame(e.response) =>
          /\ e.raised = "none" => SequenceBit(e.response) = e.er_before
          /\ SequenceBit(e.response) # e.er_before =>
               /\ e.raised = "MalformedCommand"
               /\ e.written = <<>>

\* C2: whenever _read_response ends by raising, sent_counter_ and
\* expect_receive_ have the values they had when the call began.
C2_CountersKeptOnError ==
  \A i \in ReadCalls :
    LET e == ue_log[i]
    IN  e.raised # "none" =>
          /\ e.sc_after = e.sc_before
          /\ e.er_after = e.er_before

\* C3: each accepted non-ACK frame makes _read_response write exactly one ACK
\* frame and toggle expect_receive_ once; an accepted ACK frame makes it
\* write nothing and leave expect_receive_ as it was.
C3_AckAfterData ==
  \A i \in ReadCalls :
    LET e == ue_log[i]
    IN  e.raised = "none" =>
          IF TestBit(e.response[3], BIT_ACK)
            THEN /\ e.written = <<>>
                 /\ e.er_after = e.er_before
            ELSE /\ Len(e.written) = 1
                 /\ IsAckFrame(e.written[1])
                 /\ e.er_after = ~e.er_before

\* A non-ACK frame and, in the same operation, an ACK frame were accepted.
C3_Witness ==
  /\ \E i \in ReadCalls :
       /\ ue_log[i].raised = "none"
       /\ ~TestBit(ue_log[i].response[3], BIT_ACK)
       /\ Len(ue_log[i].written) = 1
  /\ \E i \in ReadCalls :
       /\ ue_log[i].raised = "none"
       /\ TestBit(ue_log[i].response[3], BIT_ACK)

\* C4: every request frame toggles sent_counter_ once and carries the value
\* it had before as its sequence-number bit; an ACK frame leaves it alone.
C4_SentCounterToggles ==
  \A i \in SendCalls :
    LET e == ue_log[i]
    IN  IF e.acknowledge
          THEN e.sc_after = e.sc_before
          ELSE /\ e.sc_after = ~e.sc_before
               /\ SequenceBit(e.frame) = e.sc_before

\* A request went out with the sequence bit set and its reply was ACKed.
C4_Witness ==
  /\ \E i \in SendCalls :
       /\ ~ue_log[i].acknowledge
       /\ ue_log[i].sc_before
       /\ SequenceBit(ue_log[i].frame)
  /\ \E i \in SendCalls : ue_log[i].acknowledge

\* C5: connect() writes exactly one frame, with no payload and the
\* disconnect bit set, and returns only after a frame with the acknowledge
\* bit set was received in reply.
C5_ConnectAwaitsAck ==
  ue_op = "connect" =>
    /\ Len(serial_out) = 1
    /\ PacketData(serial_out[1]) = <<>>
    /\ TestBit(serial_out[1][3], BIT_DISCONNECT)
    /\ ue_raised = "none" =>
         \E i \in ReadCalls : TestBit(ue_log[i].response[3], BIT_ACK)

(***************************************************************************)
(* support/lis.py: LIS1-A frames                                           *)
(***************************************************************************)
ASCII_STX == 2
ASCII_ETX == 3
ASCII_EOT == 4
ASCII_ENQ == 5
ASCII_ACK == 6
ASCII_ETB == 23
ASCII_LF == 10
ASCII_CR == 13

\* Python slice data[i:j] with 0-based i >= 0 and j >= 0.
Slice(data, i, j) == SubSeq(data, Min(i, Len(data)) + 1, Min(j, Len(data)))

\* Python slice data[-i:-j] for i > j >= 0 (data[-i:] when j = 0).
SliceEnd(data, i, j) ==
  SubSeq(data, (IF Len(data) > i THEN Len(data) - i ELSE 0) + 1, Len(data) - j)

IsDigit(c) == c \in 48..57
IsSpace(c) == c \in {9, 10, 11, 12, 13, 32}

\* The value of a hexadecimal digit, upper or lower case; -1 for any other
\* character.
HexDigit(c) ==
  IF c \in 48..57 THEN c - 48
  ELSE IF c \in 65..70 THEN c - 55
  ELSE IF c \in 97..102 THEN c - 87
  ELSE -1

\* int(chars, 16) for a string of at most two characters: two digits, or
\* one digit with a sign before it or white space around it.  `error` is
\* TRUE where int raises ValueError.
IntValue(n) == [error |-> FALSE, value |-> n]
IntError == [error |-> TRUE, value |-> 0]

IntBase16(chars) ==
  IF Len(chars) # 2 THEN
    IF Len(chars) = 1 /\ HexDigit(chars[1]) >= 0 THEN IntValue(HexDigit(chars[1]))
    ELSE IntError
  ELSE IF HexDigit(chars[1]) >= 0 /\ HexDigit(chars[2]) >= 0
    THEN IntValue(16 * HexDigit(chars[1]) + HexDigit(chars[2]))
  ELSE IF (IsSpace(chars[1]) \/ chars[1] = 43) /\ HexDigit(chars[2]) >= 0
    THEN IntValue(HexDigit(chars[2]))
  ELSE IF chars[1] = 45 /\ HexDigit(chars[2]) >= 0
    THEN IntValue(0 - HexDigit(chars[2]))
  ELSE IF HexDigit(chars[1]) >= 0 /\ IsSpace(chars[2])
    THEN IntValue(HexDigit(chars[1]))
  ELSE IntError

\* int(data[1:2]): the frame number character.
FrameNumberOf(data) ==
  IF Len(data) >= 2 /\ IsDigit(data[2]) THEN IntValue(data[2] - 48) ELSE IntError

\* A parser that takes the frame's word for its checksum.
calculated_checksum_Echo(data) == IntBase16(SliceEnd(data, 4, 2)).value

\* Line 87: the sum modulo 256 of data[1:-4].
calculated_checksum(data) == SumBytes(SubSeq(data, 2, Len(data) - 4)) % 256

\* A parser that wants every other frame number.
ExpectedFrameNumber_Skip(previous) == (previous + 2) % 8

\* Line 75: (previous_frame_number + 1) % 8.
ExpectedFrameNumber(previous) == (previous + 1) % 8

LisError(name) ==
  [raised |-> name, frame_number |-> -1, is_end_frame |-> FALSE, text |-> <<>>]

\* LIS1aMixin._parse_lis1a_transfer_frame (lines 56-96).
_parse_lis1a_transfer_frame(previous, data) ==
  LET frame_number == FrameNumberOf(data)
      terminator == SliceEnd(data, 5, 4)
      checksum == IntBase16(SliceEnd(data, 4, 2))
  IN  IF Slice(data, 0, 1) # <<ASCII_STX>> THEN LisError("InvalidResponse")
      ELSE IF frame_number.error THEN LisError("InvalidResponse")
      ELSE IF frame_number.value > 7 THEN LisError("InvalidResponse")
      ELSE IF frame_number.value # ExpectedFrameNumber(previous)
        THEN LisError("InvalidResponse")
      ELSE IF terminator \notin {<<ASCII_ETX>>, <<ASCII_ETB>>}
        THEN LisError("InvalidResponse")
      ELSE IF checksum.error THEN LisError("InvalidResponse")
      ELSE IF calculated_checksum(data) # checksum.value
        THEN LisError("InvalidChecksum")
      ELSE IF SliceEnd(data, 2, 0) # <<ASCII_CR, ASCII_LF>>
        THEN LisError("InvalidResponse")
      ELSE [raised |-> "none", frame_number |-> frame_number.value,
            is_end_frame |-> (terminator = <<ASCII_ETX>>),
            text |-> SubSeq(data, 3, Len(data) - 5)]

(***************************************************************************)
(* support/lis.py: LIS2-A2 fields                                          *)
(***************************************************************************)
\* The position of the first byte `sep` in `data`, 0 when there is none.
RECURSIVE FindByte(_, _, _)
FindByte(data, sep, from) ==
  IF from > Len(data) THEN 0
  ELSE IF data[from] = sep THEN from
  ELSE FindByte(data, sep, from + 1)

\* bytes.split(sep) for a one-byte separator.
RECURSIVE Split(_, _)
Split(data, sep) ==
  LET i == FindByte(data, sep, 1)
  IN  IF i = 0 THEN <<data>>
      ELSE <<SubSeq(data, 1, i - 1)>> \o Split(SubSeq(data, i + 1, Len(data)), sep)

\* Fields.from_string (lines 22-34): fields of repeats of components.
FieldsFromString(delimiters, data) ==
  LET byField == Split(data, delimiters.field)
  IN  [f \in 1..Len(byField) |->
        LET byRepeat == Split(byField[f], delimiters.repeat)
        IN  [r \in 1..Len(byRepeat) |-> Split(byRepeat[r], delimiters.component)]]

\* Fields.get_component (lines 36-40); the indices count from 0.  `error`
\* is TRUE where it raises InvalidResponse.
get_component(fields, field, repeat, component) ==
  IF /\ field < Len(fields)
     /\ repeat < Len(fields[field + 1])
     /\ component < Len(fields[field + 1][repeat + 1])
  THEN [error |-> FALSE, value |-> fields[field + 1][repeat + 1][component + 1]]
  ELSE [error |-> TRUE, value |-> <<>>]

\* LIS2a2Mixin._parse_delimiters (lines 117-131).  data[6:7] is a bytes
\* object and is compared with '' and with the field delimiter, so only the
\* field delimiter passes.
_parse_delimiters(data) ==
  IF Len(Slice(data, 1, 5)) # 4 THEN [error |-> TRUE]
  ELSE IF Slice(data, 6, 7) # <<data[2]>> THEN [error |-> TRUE]
  ELSE [error |-> FALSE, field |-> data[2], repeat |-> data[3],
        component |-> data[4], escape |-> data[5]]

(***************************************************************************)
(* glucometerutils/common.py                                               *)
(***************************************************************************)
UNIT_MGDL == <<109, 103, 47, 100, 76>>           \* 'mg/dL'
UNIT_MMOLL == <<109, 109, 111, 108, 47, 76>>     \* 'mmol/L'
VALID_UNITS == {UNIT_MGDL, UNIT_MMOLL}

\* common.Unit, which bacontour.py uses and this common.py does not define:
\* the enumeration of the two units, by value.
Unit == {UNIT_MGDL, UNIT_MMOLL}

\* convert_glucose_unit(value, from_unit, UNIT_MGDL) (lines 30-57) for a
\* valid from_unit, on values counted in tenths: a value in mg/dL is
\* returned as it is, a value in mmol/L becomes round(value * 18.0, 0).
convert_to_mgdl(tenths, from_unit) ==
  IF from_unit = UNIT_MGDL THEN tenths
  ELSE ((tenths * 18 + 5) \div 10) * 10

(***************************************************************************)
(* Numbers and dates in result records.                                    *)
(***************************************************************************)
RECURSIVE DigitsValue(_)
DigitsValue(chars) ==
  IF chars = <<>> THEN 0
  ELSE 10 * DigitsValue(SubSeq(chars, 1, Len(chars) - 1)) + (chars[Len(chars)] - 48)

AllDigits(chars) == chars # <<>> /\ \A i \in 1..Len(chars) : IsDigit(chars[i])

\* float(text) for decimal literals with at most one digit after the point,
\* in tenths; the result records of this model carry no other literal that
\* float accepts.
ParseFloat(text) ==
  LET dot == FindByte(text, 46, 1)
  IN  IF dot = 0 THEN
        IF AllDigits(text) THEN IntValue(10 * DigitsValue(text)) ELSE IntError
      ELSE IF /\ AllDigits(SubSeq(text, 1, dot - 1))
              /\ Len(text) = dot + 1
              /\ IsDigit(text[dot + 1])
        THEN IntValue(10 * DigitsValue(SubSeq(text, 1, dot - 1)) + (text[dot + 1] - 48))
      ELSE IntError

\* bytes.rstrip('\r')
RECURSIVE RStripCR(_)
RStripCR(text) ==
  IF text # <<>> /\ text[Len(text)] = ASCII_CR
    THEN RStripCR(SubSeq(text, 1, Len(text) - 1))
    ELSE text

DaysInMonth(year, month) ==
  IF month \in {4, 6, 9, 11} THEN 30
  ELSE IF month # 2 THEN 31
  ELSE IF (year % 4 = 0 /\ year % 100 # 0) \/ year % 400 = 0 THEN 29
  ELSE 28

\* datetime.strptime(text, "%Y%m%d%H%M") for a text of twelve characters.
ParseTimestamp(text) ==
  LET year == DigitsValue(SubSeq(text, 1, 4))
      month == DigitsValue(SubSeq(text, 5, 6))
      day == DigitsValue(SubSeq(text, 7, 8))
      hour == DigitsValue(SubSeq(text, 9, 10))
      minute == DigitsValue(SubSeq(text, 11, 12))
  IN  IF /\ Len(text) = 12
         /\ AllDigits(text)
         /\ year >= 1
         /\ month \in 1..12
         /\ day >= 1 /\ day <= DaysInMonth(year, month)
         /\ hour <= 23
         /\ minute <= 59
      THEN [error |-> FALSE,
            value |-> <<year, month, day, hour, minute>>]
      ELSE [error |-> TRUE, value |-> <<>>]

(***************************************************************************)
(* drivers/bacontour.py: Device, and LIS2a2Mixin._parse_lis2a2_message     *)
(*                                                                         *)
(* A device value `b` is a record of the fields of Device and of the       *)
(* exception that ended the running call ("none" when it returned).        *)
(***************************************************************************)
UNKNOWN == <<85, 110, 107, 110, 111, 119, 110>>    \* 'Unknown'

\* Device.__init__ (lines 72-77); <<>> stands for None.
NewContour ==
  [_version_number |-> <<UNKNOWN>>, _serial_number |-> UNKNOWN,
   _glucose_unit |-> <<>>, _readings |-> <<>>, raised |-> "none"]

\* Device.get_glucose_unit (lines 92-93).
get_glucose_unit(b) == IF b._glucose_unit # <<>> THEN b._glucose_unit ELSE UNIT_MMOLL

\* Device._process_lis2a2_header (lines 115-152).  The version string is
\* kept as the four components it is formatted from.
_process_lis2a2_header(b, header_fields) ==
  LET serial == get_component(header_fields, 2, 2, 1)
      v1 == get_component(header_fields, 2, 0, 0)
      v2 == get_component(header_fields, 2, 0, 1)
      v3 == get_component(header_fields, 2, 1, 0)
      v4 == get_component(header_fields, 2, 2, 0)
  IN  IF serial.error THEN [b EXCEPT !.raised = "InvalidResponse"]
      ELSE IF v1.error \/ v2.error \/ v3.error \/ v4.error
        THEN [b EXCEPT !._serial_number = serial.value, !.raised = "InvalidResponse"]
      ELSE [b EXCEPT !._serial_number = serial.value,
                     !._version_number = <<v1.value, v2.value, v3.value, v4.value>>]

\* common.GlucoseReading(timestamp, glucose_level); the value in tenths of
\* mg/dL.
GlucoseReading(timestamp, value) == [timestamp |-> timestamp, value |-> value]

\* A driver that puts each new reading in front of the earlier ones.
AddReading_Front(readings, reading) == <<reading>> \o readings

\* Line 190: self._readings.append(...)
AddReading(readings, reading) == Append(readings, reading)

\* Device._process_lis2a2_result (lines 154-190).
_process_lis2a2_result(b, result_fields) ==
  LET glucose_unit == get_component(result_fields, 4, 0, 0)
      level == get_component(result_fields, 3, 0, 0)
      stamp == get_component(result_fields, 8, 0, 0)
      b1 == [b EXCEPT !._glucose_unit = glucose_unit.value]
      value == ParseFloat(level.value)
      timestamp == ParseTimestamp(RStripCR(stamp.value))
  IN  IF glucose_unit.error THEN [b EXCEPT !.raised = "InvalidResponse"]
      ELSE IF glucose_unit.value \notin Unit
        THEN [b EXCEPT !.raised = "AssertionError"]
      ELSE IF b._glucose_unit # <<>> /\ b._glucose_unit # glucose_unit.value
        THEN [b EXCEPT !.raised = "AssertionError"]
      ELSE IF level.error THEN [b1 EXCEPT !.raised = "InvalidResponse"]
      ELSE IF value.error THEN [b1 EXCEPT !.raised = "ValueError"]
      ELSE IF stamp.error THEN [b1 EXCEPT !.raised = "InvalidResponse"]
      ELSE IF timestamp.error THEN [b1 EXCEPT !.raised = "ValueError"]
      ELSE [b1 EXCEPT !._readings =
              AddReading(@, GlucoseReading(timestamp.value,
                  convert_to_mgdl(value.value, get_glucose_unit(b1))))]

\* Lines 154-158: the loop over the frames after the patient frame; i is
\* the position of the next frame.  76 is 'L'.
RECURSIVE ProcessResults(_, _, _, _)
ProcessResults(b, delimiters, frame_iter, i) ==
  IF i > Len(frame_iter) THEN b
  ELSE IF Slice(frame_iter[i], 0, 1) = <<76>> THEN b
  ELSE LET b1 == _process_lis2a2_result(b, FieldsFromString(delimiters, frame_iter[i]))
       IN  IF b1.raised # "none" THEN b1
           ELSE ProcessResults(b1, delimiters, frame_iter, i + 1)

\* LIS2a2Mixin._parse_lis2a2_message (lines 139-158), for at least one
\* frame: _parse_lis1a_transfer_frames never returns fewer.
_parse_lis2a2_message(b, frame_iter) ==
  LET header_frame == frame_iter[1]
      delimiters == _parse_delimiters(header_frame)
      b1 == _process_lis2a2_header(b,
              FieldsFromString(delimiters, Drop(header_frame, 6)))
  IN  IF delimiters.error THEN [b EXCEPT !.raised = "InvalidResponse"]
      ELSE IF b1.raised # "none" THEN b1
      ELSE IF Len(frame_iter) < 2 THEN b1
      ELSE ProcessResults(b1, delimiters, frame_iter, 3)

(***************************************************************************)
(* What the Contour meter may send.                                        *)
(***************************************************************************)
\* Record texts, as in the fixtures of test/test_bacontour.py, shortened.
\*   H|\^&||x|A^1\2\3^S
TEXT_HEADER ==
  <<72, 124, 92, 94, 38, 124, 124, 120, 124, 65, 94, 49, 92, 50, 92, 51, 94, 83>>
\*   P|1
TEXT_PATIENT == <<80, 124, 49>>
\*   R|1|G|8.6|mmol/L^P||A||201608242306
TEXT_RESULT_1 ==
  <<82, 124, 49, 124, 71, 124, 56, 46, 54, 124, 109, 109, 111, 108, 47, 76, 94,
    80, 124, 124, 65, 124, 124, 50, 48, 49, 54, 48, 56, 50, 52, 50, 51, 48, 54>>
\*   R|2|G|7.8|mmol/L^P||A||201608251230\r
TEXT_RESULT_2 ==
  <<82, 124, 50, 124, 71, 124, 55, 46, 56, 124, 109, 109, 111, 108, 47, 76, 94,
    80, 124, 124, 65, 124, 124, 50, 48, 49, 54, 48, 56, 50, 53, 49, 50, 51, 48, 13>>
\*   R|3|G|100|mg/dL^P||A||201608251833
TEXT_RESULT_3 ==
  <<82, 124, 51, 124, 71, 124, 49, 48, 48, 124, 109, 103, 47, 100, 76, 94, 80,
    124, 124, 65, 124, 124, 50, 48, 49, 54, 48, 56, 50, 53, 49, 56, 51, 51>>
\*   L|1||N\r
TEXT_TERMINATOR == <<76, 124, 49, 124, 124, 78, 13>>

ResultTexts == {TEXT_RESULT_1, TEXT_RESULT_2, TEXT_RESULT_3}

\* What the meter may send as its n-th record: a header or (wrongly) a
\* patient record first, then a patient record or a result, then results
\* and the terminator record.
TextsAt(n) ==
  IF n = 1 THEN {TEXT_HEADER, TEXT_PATIENT}
  ELSE IF n = 2 THEN {TEXT_PATIENT, TEXT_RESULT_1}
  ELSE ResultTexts \cup {TEXT_TERMINATOR}

\* An upper-case hexadecimal digit.
HexChar(n) == IF n < 10 THEN 48 + n ELSE 55 + n

\* The frame the meter builds: <STX> FN text <ETB|ETX> C1 C2 <CR> <LF>.
MeterFrame(frame_number, text, terminator) ==
  LET body == <<48 + frame_number>> \o text \o <<terminator>>
      sum == SumBytes(body) % 256
  IN  <<ASCII_STX>> \o body
        \o <<HexChar(sum \div 16), HexChar(sum % 16), ASCII_CR, ASCII_LF>>

\* The meter numbers its n-th frame n modulo 8.
MeterFrameNumber(n) == n % 8

\* The sound n-th frames.
InSequence(n) ==
  {MeterFrame(MeterFrameNumber(n), text, terminator) :
     text \in TextsAt(n), terminator \in {ASCII_ETX, ASCII_ETB}}

\* Sound frames with every frame number.
AnyNumber ==
  {MeterFrame(fn, TEXT_PATIENT, ASCII_ETX) : fn \in 0..7}

\* Frames with the frame number `fn` and one thing wrong: a checksum that
\* does not match, a checksum in lower case (which int(..., 16) reads), 
\* checksum characters that are no hexadecimal digits, a terminator that is
\* neither ETX nor ETB, an ending that is not CR LF.
Damaged(fn) ==
  LET f == MeterFrame(fn, TEXT_PATIENT, ASCII_ETX)
      g == MeterFrame(fn, TEXT_TERMINATOR, ASCII_ETB)
      k == Len(f)
  IN  {Corrupt(f, k - 2, IF f[k - 2] = 48 THEN 49 ELSE 48),
       Corrupt(g, Len(g) - 3, g[Len(g) - 3] + 32),
       Corrupt(f, k - 3, 90),
       Corrupt(f, k - 4, ASCII_EOT),
       Corrupt(f, k, ASCII_CR)}

\* Anything else: no STX, a frame number that is no digit or above 7, a
\* control byte, nothing.
NotAFrame ==
  {Corrupt(MeterFrame(1, TEXT_PATIENT, ASCII_ETX), 1, ASCII_ENQ),
   Corrupt(MeterFrame(1, TEXT_PATIENT, ASCII_ETX), 2, 56),
   Corrupt(MeterFrame(1, TEXT_PATIENT, ASCII_ETX), 2, 120),
   <<ASCII_ENQ>>, <<ASCII_EOT>>, <<ASCII_ACK>>, <<>>}

\* What _read_lis1a_frame may return when the n-th frame is due.
TransferInputs(n) ==
  InSequence(n) \cup AnyNumber \cup Damaged(MeterFrameNumber(n)) \cup NotAFrame

\* What _read_lis1a_frame may return in the other two phases.
ControlInputs ==
  {<<ASCII_ENQ>>, <<ASCII_EOT>>, <<ASCII_ACK>>, <<>>, <<ASCII_ENQ, ASCII_ENQ>>,
   <<ASCII_EOT, ASCII_EOT>>, MeterFrame(1, TEXT_PATIENT, ASCII_ETX)}

\* The frames of the tests of _parse_lis1a_transfer_frame
\* (test_bacontour.py, lines 105-145), with every frame number.
\*   SOMETEXT
TEXT_SOME == <<83, 79, 77, 69, 84, 69, 88, 84>>
DirectInputs ==
  {MeterFrame(fn, TEXT_SOME, terminator) :
     fn \in 0..7, terminator \in {ASCII_ETX, ASCII_ETB}}
    \cup UNION {Damaged(fn) : fn \in 0..7} \cup NotAFrame

\* The most frames a transfer has.
MaxFrames == 7

(***************************************************************************)
(* The Contour's connect(), one step for each frame it reads.              *)
(***************************************************************************)
Read(data) == [op |-> "read", data |-> data]
Write(data) == [op |-> "write", data |-> data]

\* A driver that takes any first frame for the enquiry.
EstablishmentAccepts_Any(data) == TRUE

\* Line 174: if data == ASCII_ENQ.
EstablishmentAccepts(data) == data = <<ASCII_ENQ>>

\* Line 188: if data != ASCII_EOT: raise.
TerminationAccepts(data) == data = <<ASCII_EOT>>

\* A driver that joins the text after an intermediate frame to it.
AddFrame_Joining(frame_list, text) ==
  IF /\ lis_accepted # <<>>
     /\ SliceEnd(lis_accepted[Len(lis_accepted)], 5, 4) = <<ASCII_ETB>>
  THEN [frame_list EXCEPT ![Len(frame_list)] = @ \o text]
  ELSE Append(frame_list, text)

\* Line 105: frames.append(text).
AddFrame(frame_list, text) == Append(frame_list, text)

\* The device as connect() finds it.
ThisContour ==
  [_version_number |-> _version_number, _serial_number |-> _serial_number,
   _glucose_unit |-> _glucose_unit, _readings |-> _readings, raised |-> "none"]

ContourBecomes(b) ==
  /\ _version_number' = b._version_number
  /\ _serial_number' = b._serial_number
  /\ _glucose_unit' = b._glucose_unit
  /\ _readings' = b._readings

contourVars == <<_version_number, _serial_number, _glucose_unit, _readings>>

\* The exception leaves connect(): its locals are gone.
Raise(name) ==
  /\ lis_pc' = "failed"
  /\ lis_raised' = name
  /\ previous_frame_number' = 0
  /\ frames' = <<>>

\* Lines 173-181: the establishment phase, up to the first read of
\* _parse_lis1a_transfer_frames.
LIS_establish ==
  /\ lis_pc = "idle"
  /\ \E data \in ControlInputs :
       IF EstablishmentAccepts(data)
       THEN /\ lis_io' = <<Read(data), Write(<<ASCII_ACK>>)>>
            /\ lis_pc' = "transfer"
            /\ previous_frame_number' = 0
            /\ frames' = <<>>
            /\ UNCHANGED lis_raised
       ELSE /\ lis_io' = <<Read(data)>>
            /\ Raise("InvalidResponse")
  /\ lis_call' = <<>>
  /\ UNCHANGED <<contourVars, lis_accepted, lis_records>>

\* Lines 101-113 and 184: one round of the loop of
\* _parse_lis1a_transfer_frames and, after the end frame,
\* _parse_lis2a2_message, up to the next read.
LIS_transfer ==
  /\ lis_pc = "transfer"
  /\ Len(lis_accepted) < MaxFrames
  /\ \E data \in TransferInputs(Len(lis_accepted) + 1) :
       LET r == _parse_lis1a_transfer_frame(previous_frame_number, data)
           fs == AddFrame(frames, r.text)
           b == _parse_lis2a2_message(ThisContour, fs)
       IN  IF r.raised # "none"
           THEN /\ lis_io' = <<Read(data)>>
                /\ Raise(r.raised)
                /\ UNCHANGED <<contourVars, lis_accepted, lis_records>>
           ELSE /\ lis_io' = <<Read(data), Write(<<ASCII_ACK>>)>>
                /\ lis_accepted' = Append(lis_accepted, data)
                /\ IF ~r.is_end_frame
                   THEN /\ lis_pc' = "transfer"
                        /\ previous_frame_number' = r.frame_number
                        /\ frames' = fs
                        /\ UNCHANGED <<contourVars, lis_records, lis_raised>>
                   ELSE /\ lis_records' = fs
                        /\ ContourBecomes(b)
                        /\ IF b.raised # "none"
                           THEN Raise(b.raised)
                           ELSE /\ lis_pc' = "termination"
                                /\ previous_frame_number' = r.frame_number
                                /\ frames' = fs
                                /\ UNCHANGED lis_raised
  /\ UNCHANGED lis_call

\* Lines 187-189: the termination phase; connect() returns.
LIS_terminate ==
  /\ lis_pc = "termination"
  /\ \E data \in ControlInputs :
       /\ lis_io' = <<Read(data)>>
       /\ IF TerminationAccepts(data)
          THEN /\ lis_pc' = "connected"
               /\ previous_frame_number' = 0
               /\ frames' = <<>>
               /\ UNCHANGED lis_raised
          ELSE Raise("InvalidResponse")
  /\ UNCHANGED <<contourVars, lis_accepted, lis_records, lis_call>>

\* _parse_lis1a_transfer_frame called by itself, as the tests call it.
LIS_parse_frame ==
  /\ lis_pc = "idle"
  /\ \E previous \in 0..7, data \in DirectInputs :
       lis_call' = [previous |-> previous, data |-> data,
                    result |-> _parse_lis1a_transfer_frame(previous, data)]
  /\ UNCHANGED <<lis_pc, previous_frame_number, frames, contourVars, lis_raised,
                 lis_io, lis_accepted, lis_records>>

\* bacontour.Device.__init__ (lines 72-77); <<>> stands for None and for
\* "none yet".
BayerInit ==
  /\ lis_pc = "idle"
  /\ previous_frame_number = 0
  /\ frames = <<>>
  /\ _version_number = NewContour._version_number
  /\ _serial_number = NewContour._serial_number
  /\ _glucose_unit = NewContour._glucose_unit
  /\ _readings = NewContour._readings
  /\ lis_raised = "none"
  /\ lis_io = <<>>
  /\ lis_accepted = <<>>
  /\ lis_records = <<>>
  /\ lis_call = <<>>

\* The next run of the program makes its own Device.
LIS_new ==
  /\ lis_pc \in {"connected", "failed"}
  /\ lis_pc' = "idle"
  /\ previous_frame_number' = 0
  /\ frames' = <<>>
  /\ ContourBecomes(NewContour)
  /\ lis_raised' = "none"
  /\ lis_io' = <<>>
  /\ lis_accepted' = <<>>
  /\ lis_records' = <<>>
  /\ lis_call' = <<>>

BayerNext ==
  /\ \/ LIS_new
     \/ LIS_establish
     \/ LIS_transfer
     \/ LIS_terminate
     \/ LIS_parse_frame
  /\ UNCHANGED <<ueVars, tlvVars, cuVars, fsVars, mrVars, sdVars, otVars, libreVars, verioVars, crcVars, convVars, ktVars, guVars, tsVars, ckVars, ssVars, lgVars>>

(***************************************************************************)
(* drivers/bacontour.py: BayerTLVMixin._read_lis1a_frame                   *)
(***************************************************************************)
\* Device.blocksize (line 68) and the locals of _read_lis1a_frame.
blocksize == 64
header_size == 4
data_length_offset == 3

\* type_str: 'ABC'.
type_str == <<65, 66, 67>>

\* None, as the value of a read: no byte string has a negative byte.
None == <<-1>>

\* A read-loop that takes a full block for the last one too.
IsLastBlock_OrFull(enc_data) == Len(enc_data) <= blocksize - header_size

\* Line 61: if len(enc_data) < self.blocksize - header_size: break.
IsLastBlock(enc_data) == Len(enc_data) < blocksize - header_size

\* The result of _read_lis1a_frame: what it returns or raises, and the
\* number of its calls of _read().  "blocked" is a call that waits in
\* _read() for a report that does not come.
TlvResult(block, reads, raised) ==
  [block |-> block, reads |-> reads, raised |-> raised]

\* Lines 42-64: the loop of _read_lis1a_frame over the reports that _read()
\* will return, with `block` collected in `reads` rounds so far.
RECURSIVE ReadLoop(_, _, _)
ReadLoop(reports, block, reads) ==
  IF reports = <<>> THEN TlvResult(block, reads, "blocked")
  ELSE
    LET data == Head(reports)
        data_length == data[data_length_offset + 1]
        start_byte == header_size
        last_byte == start_byte + data_length
        enc_data == Slice(data, start_byte, last_byte)
    IN  IF data = None THEN TlvResult(block, reads + 1, "none")
        ELSE IF Len(data) <= data_length_offset
          THEN TlvResult(<<>>, reads + 1, "InvalidResponse")
        ELSE IF IsLastBlock(enc_data)
          THEN TlvResult(block \o enc_data, reads + 1, "none")
        ELSE ReadLoop(Tail(reports), block \o enc_data, reads + 1)

\* BayerTLVMixin._read_lis1a_frame (lines 31-64).
_read_lis1a_frame(reports) == ReadLoop(reports, <<>>, 0)

\* `n` bytes of value `byte`.
Repeat(byte, n) == [i \in 1..n |-> byte]

\* A report as the meter builds it: 'ABC', the length, the data, and zeros
\* up to `size` bytes.
Report(data_length, data, size) ==
  LET filled == type_str \o <<data_length>> \o data
  IN  filled \o Repeat(0, size - Len(filled))

\* What _read() may return: reports with 60, 59, 40, 3 and 0 bytes of data,
\* padded to the block size or (as the tests have them) not; a report
\* that announces more data than a block holds; a report cut short; three
\* bytes; nothing; None.
HidReports ==
  {Report(60, Repeat(32, 60), blocksize),
   Report(60, Repeat(33, 60), blocksize),
   Report(59, Repeat(38, 59), blocksize),
   Report(40, Repeat(34, 40), blocksize),
   Report(40, Repeat(35, 40), 0),
   Report(3, <<1, 2, 3>>, blocksize),
   Report(0, <<>>, blocksize),
   Report(200, Repeat(36, 60), blocksize),
   Report(60, Repeat(37, 20), 0),
   <<49, 50, 51>>,
   <<>>,
   None}

\* The most reports a frame is read from.
MaxReports == 3

\* The reports _read() returns one after the other, for a call that
\* returns or raises.
ReportRuns ==
  {run \in UNION {[1..n -> HidReports] : n \in 1..MaxReports} :
     /\ _read_lis1a_frame(run).raised # "blocked"
     /\ _read_lis1a_frame(run).reads = Len(run)}

\* A call of _read_lis1a_frame.
TLV_read_lis1a_frame ==
  /\ \E run \in ReportRuns :
       /\ hid_reports' = run
       /\ tlv_result' = _read_lis1a_frame(run)
  /\ UNCHANGED <<ueVars, lisVars, cuVars, fsVars, mrVars, sdVars, otVars, libreVars, verioVars, crcVars, convVars, ktVars, guVars, tsVars, ckVars, ssVars, lgVars>>

TlvInit ==
  /\ hid_reports = <<>>
  /\ tlv_result = TlvResult(<<>>, 0, "none")

BayerTlvNext == TLV_read_lis1a_frame

(***************************************************************************)
(* support/contour.py, support/contourusb.py: the Contour USB protocol.    *)
(* drivers/contourusb.py has the sync() of support/contourusb.py, line for *)
(* line, over the checkframe() of support/contour.py, which is the one of  *)
(* support/contourusb.py.                                                  *)
(***************************************************************************)
\* The control characters of the drivers (contournextone.py, lines 73-82).
ACK == 6
ENQ == 5
EOT == 4
NAK == 21

\* The operation modes (contourusb.py, lines 68-72), and the class
\* attribute `state = None`.
mode_establish == "establish"
mode_data == "data"
mode_precommand == "precommand"
mode_command == "command"
NoState == "None"

\* An attribute that no assignment has made yet: __init__ makes no
\* currecno.
NoAttribute == <<-2>>

\* A value or an exception of a call.
Returns(value) == [raised |-> "none", value |-> value]
Raises(exception) == [raised |-> exception, value |-> <<>>]

\* How many bytes the UTF-8 form at the head of `data_bytes` takes, for
\* the forms of one and two bytes; 0 for a byte that starts neither (the
\* three and four byte forms start with 0xE0..0xF4, which no reply here
\* holds).
FormLength(data_bytes) ==
  IF data_bytes[1] < 128 THEN 1
  ELSE IF /\ data_bytes[1] \in 194..223
          /\ Len(data_bytes) >= 2
          /\ data_bytes[2] \in 128..191 THEN 2
  ELSE 0

RECURSIVE IsText(_)
IsText(data_bytes) ==
  IF data_bytes = <<>> THEN TRUE
  ELSE IF FormLength(data_bytes) = 0 THEN FALSE
  ELSE IsText(Drop(data_bytes, FormLength(data_bytes)))

RECURSIVE CodePoints(_)
CodePoints(data_bytes) ==
  IF data_bytes = <<>> THEN <<>>
  ELSE IF FormLength(data_bytes) = 1
    THEN <<data_bytes[1]>> \o CodePoints(Tail(data_bytes))
  ELSE <<(data_bytes[1] - 192) * 64 + (data_bytes[2] - 128)>>
       \o CodePoints(Tail(Tail(data_bytes)))

\* bytes.decode(): the code points of UTF-8 bytes, or UnicodeDecodeError.
decode(data_bytes) ==
  IF IsText(data_bytes) THEN Returns(CodePoints(data_bytes))
  ELSE Raises("UnicodeDecodeError")

\* str.encode(): the UTF-8 bytes of code points below 0x800.
RECURSIVE encode(_)
encode(text) ==
  IF text = <<>> THEN <<>>
  ELSE (IF text[1] < 128 THEN <<text[1]>>
        ELSE <<192 + (text[1] \div 64), 128 + (text[1] % 64)>>)
       \o encode(Tail(text))

\* ContourHidDevice.write (contourusb.py, lines 86-91): the report it hands
\* to _write().
write(data) ==
  LET filled == <<65, 66, 67>> \o encode(<<Len(data)>>) \o encode(data)
  IN  filled \o Repeat(0, blocksize - Len(filled))

\* ContourHidDevice.read (contourusb.py, lines 74-84) over the reports that
\* _read() returns: the joined payloads up to the first report whose length
\* byte is not 60.
RECURSIVE read(_)
read(reports) ==
  LET data == Head(reports)
      payload == Slice(data, 4, data[4] + 4)
  IN  IF data[4] # blocksize - 4 THEN payload
      ELSE payload \o read(Tail(reports))

\* hex(n).upper().split('X')[1]: the hexadecimal digits of n, upper case.
RECURSIVE HexDigits(_)
HexDigits(n) ==
  IF n < 16 THEN <<HexChar(n)>>
  ELSE HexDigits(n \div 16) \o <<HexChar(n % 16)>>

\* ContourHidDevice.checksum (contourusb.py, lines 152-158).
checksum(text) ==
  SliceEnd(<<48, 48>> \o HexDigits(SumBytes(text) % 256), 2, 0)

\* _RECORD_FORMAT.match(frame) (contourusb.py, lines 54-57): the groups of
\* the match, or no match.  The text ends at the first CR, since it holds
\* none.
NoMatch == [matched |-> FALSE]
RecordFormatMatch(frame) ==
  LET cr == FindByte(frame, 13, 3)
  IN  IF \/ Len(frame) < 2
         \/ frame[1] # 2
         \/ frame[2] \notin 48..55
         \/ cr = 0
         \/ Len(frame) < cr + 5
        THEN NoMatch
      ELSE IF \/ frame[cr + 1] \notin {3, 23}
              \/ frame[cr + 2] \notin (48..57) \cup (65..70)
              \/ frame[cr + 3] \notin (48..57) \cup (65..70)
              \/ frame[cr + 4] # 13
              \/ frame[cr + 5] # 10
        THEN NoMatch
      ELSE [matched |-> TRUE,
            recno |-> <<frame[2]>>,
            text |-> SubSeq(frame, 3, cr - 1),
            check |-> SubSeq(frame, 2, cr + 1),
            checksum |-> SubSeq(frame, cr + 2, cr + 3)]

\* What checkframe comes to: what it returns or raises, and the currecno
\* it leaves.
Checked(raised, value, recno_after) ==
  [raised |-> raised, value |-> value, currecno |-> recno_after]

\* A checkframe that counts the frames on without the modulo.
checkframe_Unwrapped(recno_before, frame) ==
  LET match == RecordFormatMatch(frame)
      recno == match.recno[1] - 48
      cur == IF recno_before = None THEN recno ELSE recno_before[1]
  IN  IF ~match.matched THEN Checked("FrameError", <<>>, recno_before)
      ELSE IF recno_before = NoAttribute
        THEN Checked("AttributeError", <<>>, recno_before)
      ELSE IF recno + 1 = cur THEN Checked("none", None, <<cur>>)
      ELSE IF recno # cur THEN Checked("FrameError", <<>>, <<cur>>)
      ELSE IF checksum(match.check) # match.checksum
        THEN Checked("FrameError", <<>>, <<cur>>)
      ELSE Checked("none", match.text, <<cur + 1>>)

\* ContourHidDevice.checkframe (contourusb.py, lines 160-188) with currecno
\* being `recno_before`.
checkframe(recno_before, frame) ==
  LET match == RecordFormatMatch(frame)
      recno == match.recno[1] - 48
      cur == IF recno_before = None THEN recno ELSE recno_before[1]
  IN  IF ~match.matched THEN Checked("FrameError", <<>>, recno_before)
      ELSE IF recno_before = NoAttribute
        THEN Checked("AttributeError", <<>>, recno_before)
      ELSE IF recno + 1 = cur THEN Checked("none", None, <<cur>>)
      ELSE IF recno # cur THEN Checked("FrameError", <<>>, <<cur>>)
      ELSE IF checksum(match.check) # match.checksum
        THEN Checked("FrameError", <<>>, <<cur>>)
      ELSE Checked("none", match.text, <<(cur + 1) % 8>>)

\* str.find(c): the index of the first c, counted from 0, or -1.
find(data, c) == FindByte(data, c, 1) - 1

\* \w, for the characters of ASCII.
IsWord(c) == c \in (48..57) \cup (65..90) \cup (97..122) \cup {95}

\* The first index from `from` on whose character is no \w, or Len + 1.
RECURSIVE WordEnd(_, _)
WordEnd(text, from) ==
  IF from > Len(text) \/ ~IsWord(text[from]) THEN from
  ELSE WordEnd(text, from + 1)

\* _MESSAGE_TERMINATOR_RECORD_RE.match(text) (contournextone.py, lines
\* 67-68): ^L\|1\|\w*\|N.
TerminatorMatch(text) ==
  LET bar == WordEnd(text, 5)
  IN  /\ Len(text) >= 6
      /\ SubSeq(text, 1, 4) = <<76, 124, 49, 124>>
      /\ Len(text) >= bar + 1
      /\ text[bar] = 124
      /\ text[bar + 1] = 78

\* What one round of the loop of sync() comes to, from the read() on: how
\* it leaves the loop body ("continue", "break", or the exception raised),
\* the state, currecno, tometer, result and foo it leaves, what checkframe
\* did for it ("none" when it was not called), and what it wrote itself.
Round(how, st, recno_after, to_meter, value, retry, checked, wrote) ==
  [how |-> how, state |-> st, currecno |-> recno_after, tometer |-> to_meter,
   result |-> value, foo |-> retry, checked |-> checked, wrote |-> wrote]

\* Line 276: if data_bytes[-1] == 15.
IsRetryReply(data_bytes) == data_bytes[Len(data_bytes)] = 15

\* Line 284: the answer to <ENQ>.
OnEnq_Nak == <<NAK>>
OnEnq == <<ACK>>

\* The three classes with a sync(): ContourHidDevice of
\* support/contourusb.py, Device of drivers/contourusb.py, Device of
\* drivers/contournextone.py.
SUPPORT_USB == "support/contourusb.py"
DRIVER_USB == "drivers/contourusb.py"
DRIVER_NEXT_ONE == "drivers/contournextone.py"
Drivers == {SUPPORT_USB, DRIVER_USB, DRIVER_NEXT_ONE}

\* A handler that catches the FrameError of checkframe in every class.
ExceptFrameError_Caught(driver, raised) ==
  IF raised = "FrameError" THEN "caught" ELSE raised

\* `except FrameError` of sync(), met by the exception `raised` in its try
\* block: "caught", or the exception that leaves sync().  In
\* support/contourusb.py (line 299) the name is the class that checkframe
\* raises; drivers/contourusb.py (line 192) has no such name, which is a
\* NameError; in drivers/contournextone.py (line 164) it is the class of
\* its line 30, which nothing raises.
ExceptFrameError(driver, raised) ==
  IF driver = SUPPORT_USB
    THEN (IF raised = "FrameError" THEN "caught" ELSE raised)
  ELSE IF driver = DRIVER_USB THEN "NameError"
  ELSE raised

\* Lines 292-303: the reply is searched for <STX> and the frame checked.
ParseReply(driver, st, recno_before, to_meter, retry, data) ==
  LET stx == find(data, 2)
      checked == checkframe(recno_before, Drop(data, stx))
      handled == ExceptFrameError(driver, checked.raised)
  IN  IF stx = -1
        THEN Round("continue", st, recno_before, <<NAK>>, None, retry,
                   "none", <<>>)
      ELSE IF checked.raised = "none"
        THEN Round("continue", mode_data, checked.currecno, <<ACK>>,
                   checked.value, retry,
                   IF checked.value = None THEN "duplicate" ELSE "accepted",
                   <<>>)
      ELSE IF handled = "caught"
        THEN Round("continue", st, checked.currecno, <<NAK>>, None,
                   retry, checked.raised, <<>>)
      ELSE Round(handled, st, checked.currecno, to_meter, None,
                 retry, checked.raised, <<>>)

\* sync (support/contourusb.py, lines 272-303; drivers/contourusb.py, lines
\* 165-196): the loop body from the read() on, for the reply `data_bytes`.
SyncRound(driver, st, recno_before, to_meter, retry, data_bytes) ==
  LET decoded == decode(data_bytes)
      last == data_bytes[Len(data_bytes)]
  IN  IF decoded.raised # "none"
        THEN Round(decoded.raised, st, recno_before, to_meter, None, retry,
                   "none", <<>>)
      ELSE IF data_bytes = <<>>
        THEN Round("IndexError", st, recno_before, to_meter, None, retry,
                   "none", <<>>)
      ELSE IF st = mode_establish /\ IsRetryReply(data_bytes)
        THEN Round("continue", st, recno_before, <<retry>>, None,
                   (retry + 1) % 256, "none", <<>>)
      ELSE IF st = mode_establish /\ last = 5
        THEN Round("continue", st, None, OnEnq, None, retry, "none", <<>>)
      ELSE IF st = mode_data /\ last = 4
        THEN Round("break", mode_precommand, recno_before, to_meter, None,
                   retry, "none", <<>>)
      ELSE ParseReply(driver, st, recno_before, to_meter, retry,
                      decoded.value)

\* Device.sync of contournextone.py (lines 152-168): the loop body from the
\* read() on.  The match of the terminator record is in the try block, and
\* raises TypeError for the None of a frame sent twice.
NextOneSyncRound(st, recno_before, to_meter, retry, data_bytes) ==
  LET decoded == decode(data_bytes)
      parsed == ParseReply(DRIVER_NEXT_ONE, st, recno_before, to_meter,
                           retry, decoded.value)
  IN  IF decoded.raised # "none"
        THEN Round(decoded.raised, st, recno_before, to_meter, None, retry,
                   "none", <<>>)
      ELSE IF parsed.checked = "duplicate"
        THEN Round(ExceptFrameError(DRIVER_NEXT_ONE, "TypeError"), st,
                   parsed.currecno, to_meter, None, retry, "duplicate",
                   <<>>)
      ELSE IF parsed.checked = "accepted" /\ TerminatorMatch(parsed.result)
        THEN Round("break", st, parsed.currecno, to_meter, parsed.result,
                   retry, "accepted", <<write(<<ACK>>)>>)
      ELSE parsed

\* A generator that yields nothing.
Yields_Never(value, st) == FALSE

\* Lines 269-270: if result is not None and self.state == self.mode_data.
Yields(value, st) == value # None /\ st = mode_data

(***************************************************************************)
(* What the meter may reply.                                               *)
(***************************************************************************)
\* The most calls of read() in one call of the driver.
MaxReplies == 4

\* The text of the result record that goes in the frame numbered `recno`,
\* "R0" to "R7", and the text of a terminator record, "L|1||N".
TextOf(recno) == <<82, 48 + recno>>
TEXT_END == <<76, 124, 49, 124, 124, 78>>

\* The frame numbers the meter may send next: any, when the driver has
\* none to compare with, else the one before, the one due, the one after.
RecnosAfter(recno_before) ==
  IF recno_before \in {None, NoAttribute} THEN 0..7
  ELSE {(recno_before[1] + 7) % 8, recno_before[1], (recno_before[1] + 1) % 8}

\* The frame number due, 0 when the driver has none to compare with.
RecnoDue(recno_before) ==
  IF recno_before \in {None, NoAttribute} THEN 0 ELSE recno_before[1]

\* The frame as _RECORD_FORMAT has it: the text ends with <CR>.
RecordFrame(recno, text, end) == MeterFrame(recno, text \o <<13>>, end)

\* A frame with a checksum that is one off.
WrongSum(frame) ==
  LET c == frame[Len(frame) - 2]
  IN  [frame EXCEPT ![Len(frame) - 2] = IF c = 48 THEN 49 ELSE 48]

\* The replies: the control characters alone, <SI>, an <ACK>, nothing,
\* bytes that are no text before <EOT> and <ENQ>; sound frames and frames
\* with a wrong checksum for each number; and for the number due a
\* terminator record, a frame without its line feed, the header as the
\* meter sends it between <EOT> and <ENQ>, and a frame followed by <EOT>.
ReplyData(recno_before) ==
  LET due == RecnoDue(recno_before)
      sound == RecordFrame(due, TextOf(due), ASCII_ETX)
  IN  {<<EOT>>, <<ENQ>>, <<NAK>>, <<15>>, <<ACK>>, <<>>,
       <<255, EOT>>, <<255, ENQ>>}
      \cup {RecordFrame(n, TextOf(n), ASCII_ETX) :
              n \in RecnosAfter(recno_before)}
      \cup {WrongSum(RecordFrame(n, TextOf(n), ASCII_ETB)) :
              n \in RecnosAfter(recno_before)}
      \cup {RecordFrame(due, TEXT_END, ASCII_ETX),
            Take(sound, Len(sound) - 1),
            <<EOT>> \o sound \o <<ENQ>>,
            sound \o <<EOT>>}

\* What read() returns for each of them, sent in one report.
Replies(recno_before) ==
  {read(<<Report(Len(data), data, blocksize)>>) : data \in ReplyData(recno_before)}

\* What _get_info_record may be replied, leaving out the replies with a
\* header record, which parse_header_record takes apart.
InfoReplies ==
  {read(<<Report(Len(data), data, blocksize)>>) :
     data \in {<<EOT, ENQ>>, <<EOT>>, <<ENQ>>, <<ENQ, EOT>>, <<>>}}

(***************************************************************************)
(* The calls of the Contour USB drivers, a step for each read().           *)
(***************************************************************************)
\* What a step met and did.
Step(op, reply, how, checked, wrote) ==
  [op |-> op, reply |-> reply, how |-> how, checked |-> checked,
   wrote |-> wrote, mode |-> state, recno |-> currecno, foo |-> foo,
   tometer |-> tometer]

NoStep == [op |-> "none"]

\* Device(): state is the class attribute, currecno is not there.
CU_new ==
  /\ cu_pc \in {"none", "done", "raised"}
  /\ \E driver \in Drivers : cu_driver' = driver
  /\ state' = NoState
  /\ currecno' = NoAttribute
  /\ tometer' = <<>> /\ result' = None /\ foo' = 0
  /\ cu_pc' = "new"
  /\ cu_reads' = 0
  /\ cu_accepted' = <<>> /\ cu_yielded' = <<>>
  /\ cu_io' = NoStep

\* _get_info_record (contour.py, lines 134-140; contourusb.py, lines
\* 196-202) up to its first read().
CU_get_info_record ==
  /\ cu_pc = "new"
  /\ currecno' = None
  /\ state' = mode_establish
  /\ cu_pc' = "info"
  /\ cu_io' = Step("_get_info_record", <<>>, "continue", "none",
                   <<write(<<EOT>>)>>)
  /\ UNCHANGED <<cu_driver, tometer, result, foo, cu_reads, cu_accepted,
                 cu_yielded>>

\* _get_info_record (contour.py, lines 140-151) from one read() to the
\* next, or to its end.
CU_info_reply ==
  /\ cu_pc = "info"
  /\ cu_reads < MaxReplies
  /\ \E res \in InfoReplies :
       LET how == IF res = <<>> THEN "IndexError"
                  ELSE IF res[1] = 4 /\ res[Len(res)] = 5
                    THEN (IF decode(res).raised # "none"
                            THEN decode(res).raised ELSE "break")
                  ELSE "continue"
       IN  /\ cu_pc' = CASE how = "continue" -> "info"
                         [] how = "break" -> "ready"
                         [] OTHER -> "raised"
           /\ cu_io' = Step("_get_info_record", res, how, "none",
                            IF how = "continue" THEN <<write(<<EOT>>)>>
                            ELSE <<>>)
  /\ cu_reads' = cu_reads + 1
  /\ UNCHANGED <<cu_driver, state, currecno, tometer, result, foo,
                 cu_accepted, cu_yielded>>

\* The first byte sync() writes: '\x04' (contourusb.py, line 264), ACK
\* (contournextone.py, line 144).
FirstToMeter(driver) ==
  IF driver = DRIVER_NEXT_ONE THEN <<ACK>> ELSE <<EOT>>

\* sync() from its call to its first read(): nothing is there to yield.
CU_sync ==
  /\ cu_pc \in {"new", "ready"}
  /\ state' = mode_establish
  /\ tometer' = FirstToMeter(cu_driver)
  /\ result' = None
  /\ foo' = 0
  /\ cu_pc' = "reading"
  /\ cu_reads' = 0
  /\ cu_accepted' = <<>> /\ cu_yielded' = <<>>
  /\ cu_io' = Step("sync", <<>>, "continue", "none",
                   <<write(FirstToMeter(cu_driver))>>)
  /\ UNCHANGED <<cu_driver, currecno>>

\* The loop body of the sync() of `driver`.
DriverRound(driver, st, recno_before, to_meter, retry, data_bytes) ==
  IF driver = DRIVER_NEXT_ONE
    THEN NextOneSyncRound(st, recno_before, to_meter, retry, data_bytes)
  ELSE SyncRound(driver, st, recno_before, to_meter, retry, data_bytes)

\* sync() from one read() to where it stops next: the yield, the next
\* read(), the end of the generator or an exception.
CU_reply ==
  /\ cu_pc = "reading"
  /\ cu_reads < MaxReplies
  /\ \E data_bytes \in Replies(currecno) :
     \E round \in {DriverRound(cu_driver, state, currecno, tometer, foo,
                               data_bytes)} :
     \E again \in {round.how = "continue"} :
     \E yields \in {again /\ Yields(round.result, round.state)} :
       /\ state' = round.state
       /\ currecno' = round.currecno
       /\ tometer' = round.tometer
       /\ foo' = round.foo
       /\ result' = IF again /\ ~yields THEN None ELSE round.result
       /\ cu_pc' = IF yields THEN "yielded"
                   ELSE IF again THEN "reading"
                   ELSE IF round.how = "break" THEN "done"
                   ELSE "raised"
       /\ cu_accepted' = IF round.checked = "accepted"
                           THEN Append(cu_accepted, round.result)
                         ELSE cu_accepted
       /\ cu_yielded' = IF yields THEN Append(cu_yielded, round.result)
                        ELSE cu_yielded
       /\ cu_io' = Step("reply", data_bytes, round.how, round.checked,
                        round.wrote
                        \o (IF again THEN <<write(round.tometer)>>
                            ELSE <<>>))
  /\ cu_reads' = cu_reads + 1
  /\ UNCHANGED cu_driver

\* The caller takes the value yielded and asks for the next: sync() goes
\* on from line 271 to its read().
CU_next ==
  /\ cu_pc = "yielded"
  /\ result' = None
  /\ cu_pc' = "reading"
  /\ cu_io' = Step("next", <<>>, "continue", "none", <<>>)
  /\ UNCHANGED <<cu_driver, state, currecno, tometer, foo, cu_reads,
                 cu_accepted, cu_yielded>>

ContourInit ==
  /\ cu_driver = "none"
  /\ state = NoState
  /\ currecno = NoAttribute
  /\ tometer = <<>> /\ result = None /\ foo = 0
  /\ cu_pc = "none"
  /\ cu_reads = 0
  /\ cu_accepted = <<>> /\ cu_yielded = <<>>
  /\ cu_io = NoStep

ContourNext ==
  /\ \/ CU_new
     \/ CU_get_info_record
     \/ CU_info_reply
     \/ CU_sync
     \/ CU_reply
     \/ CU_next
  /\ UNCHANGED <<ueVars, lisVars, tlvVars, fsVars, mrVars, sdVars, otVars, libreVars, verioVars, crcVars, convVars, ktVars, guVars, tsVars, ckVars, ssVars, lgVars>>

(***************************************************************************)
(* support/freestyle.py: the FreeStyle HID session.                        *)
(***************************************************************************)
\* Lines 23-30.
_INIT_COMMAND == 1
_INIT_RESPONSE == 113
_KEEPALIVE_RESPONSE == 34
_UNKNOWN_MESSAGE_RESPONSE == 48
_ENCRYPTION_SETUP_COMMAND == 20
_ENCRYPTION_SETUP_RESPONSE == 51

\* Lines 32-46.
_ALWAYS_UNENCRYPTED_MESSAGES ==
  {_INIT_COMMAND, 4, 5, 6, 12, 13, _ENCRYPTION_SETUP_COMMAND, 21,
   _ENCRYPTION_SETUP_RESPONSE, 52, 53, _INIT_RESPONSE, _KEEPALIVE_RESPONSE}

\* A message is the pair of its type and its content.
Message(message_type, content) == <<message_type, content>>

\* _create_matcher (lines 49-55), for a content to match.
Matcher(message_type, content, message) ==
  message[1] = message_type /\ content = message[2]

\* _create_matcher (lines 49-55), for the content None.
TypeMatcher(message_type, message) == message[1] = message_type

\* A reply to INIT of whatever content.
_is_init_reply_AnyContent(message) == TypeMatcher(_INIT_RESPONSE, message)

\* Lines 58-62.
_is_init_reply(message) == Matcher(_INIT_RESPONSE, <<1>>, message)

_is_keepalive_response(message) == TypeMatcher(_KEEPALIVE_RESPONSE, message)

\* A matcher that takes no message for the unknown message error.
_is_unknown_message_error_Ignored(message) == FALSE

_is_unknown_message_error(message) ==
  Matcher(_UNKNOWN_MESSAGE_RESPONSE, <<133>>, message)

_is_encryption_missing_error(message) ==
  Matcher(_ENCRYPTION_SETUP_RESPONSE, <<21>>, message)

_is_encryption_setup_error(message) ==
  Matcher(_ENCRYPTION_SETUP_RESPONSE, <<20>>, message)

\* construct.Padded(length, ...): the bytes, then zeros; too many bytes
\* are a PaddingError.
Padded(length, data) ==
  IF Len(data) > length THEN Raises("PaddingError")
  ELSE Returns(data \o Repeat(0, length - Len(data)))

\* _FREESTYLE_MESSAGE.build (lines 64-72).
BuildMessage(message_type, command) ==
  LET padded == Padded(63, <<Len(command)>> \o command)
  IN  IF padded.raised # "none" THEN padded
      ELSE Returns(<<0, message_type>> \o padded.value)

\* _FREESTYLE_ENCRYPTED_MESSAGE.build (lines 74-82).
BuildEncryptedMessage(message_type, command) ==
  LET padded == Padded(63, command)
  IN  IF padded.raised # "none" THEN padded
      ELSE Returns(<<0, message_type>> \o padded.value)

\* What send_command comes to: the reports it wrote, the layout it built,
\* the exception it raised.
Sent(raised, wrote, layout) ==
  [raised |-> raised, wrote |-> wrote, layout |-> layout]

\* FreeStyleHidSession.send_command (lines 158-176).
send_command(message_type, command, encrypted) ==
  LET usb_packet == IF encrypted
                      THEN BuildEncryptedMessage(message_type, command)
                    ELSE BuildMessage(message_type, command)
      layout == IF encrypted THEN "encrypted" ELSE "plain"
  IN  IF encrypted /\ message_type \in _ALWAYS_UNENCRYPTED_MESSAGES
        THEN Sent("AssertionError", <<>>, "none")
      ELSE IF usb_packet.raised # "none"
        THEN Sent(usb_packet.raised, <<>>, layout)
      ELSE Sent("none", <<usb_packet.value>>, layout)

\* A read_response that takes the length byte for unencrypted reads only.
HasLengthByte_Unencrypted(encrypted, message_type) == ~encrypted

\* Line 187: if not encrypted or message_type in
\* _ALWAYS_UNENCRYPTED_MESSAGES.
HasLengthByte(encrypted, message_type) ==
  ~encrypted \/ message_type \in _ALWAYS_UNENCRYPTED_MESSAGES

\* Lines 185-195: the message of a report.
MessageOf(usb_packet, encrypted) ==
  LET message_type == usb_packet[1]
      message_length == usb_packet[2]
      message_end_idx == 2 + message_length
  IN  IF HasLengthByte(encrypted, message_type)
        THEN Message(message_type, Slice(usb_packet, 2, message_end_idx))
      ELSE Message(message_type, Drop(usb_packet, 1))

\* A retry that reads with the default, unencrypted.
RetryEncrypted_Default(encrypted) == FALSE

\* Line 203: return self.read_response(encrypted=encrypted).
RetryEncrypted(encrypted) == encrypted

\* What read_response does with one report: "again" for line 203, with
\* the setting it reads again with, else the message it returns or the
\* exception it raises (lines 180-214).
Response(how, message, encrypted) ==
  [how |-> how, message |-> message, encrypted |-> encrypted]

read_response(usb_packet, encrypted) ==
  LET message == MessageOf(usb_packet, encrypted)
  IN  IF usb_packet = <<>>
        THEN Response("AssertionError", <<>>, encrypted)
      ELSE IF _is_keepalive_response(message)
        THEN Response("again", message, RetryEncrypted(encrypted))
      ELSE IF \/ _is_unknown_message_error(message)
              \/ _is_encryption_missing_error(message)
              \/ _is_encryption_setup_error(message)
        THEN Response("CommandError", message, encrypted)
      ELSE Response("none", message, encrypted)

\* bytes `needle` are in `hay`.
Contains(hay, needle) ==
  \E i \in 1..(Len(hay) - Len(needle) + 1) :
    SubSeq(hay, i, i + Len(needle) - 1) = needle

\* b'CMD OK'
CMD_OK ==
  <<67, 77, 68, 32, 79, 75>>

\* b'CMD Fail!'
CMD_FAIL ==
  <<67, 77, 68, 32, 70, 97, 105, 108, 33>>

\* b'CKSM:'
CKSM ==
  <<67, 75, 83, 77, 58>>

\* A completion that only CMD OK makes.
TextComplete_OkOnly(content) == Contains(content, CMD_OK)

\* _TEXT_COMPLETION_RE.search(content) (line 84): CMD (?:OK|Fail!).
TextComplete(content) ==
  Contains(content, CMD_OK) \/ Contains(content, CMD_FAIL)

\* The end of a reply as _TEXT_REPLY_FORMAT has it (lines 85-89), for the
\* status given: CKSM: and eight digits, CR LF, CMD and the status, CR LF;
\* `extra` is 1 for the line feed that $ lets follow.
ReplyEnd(content, status, extra) ==
  LET length == 5 + 8 + 2 + 4 + Len(status) + 2 + extra
      at == Len(content) - length
  IN  /\ Len(content) >= length
      /\ SubSeq(content, at + 1, at + 5) = CKSM
      /\ \A k \in 6..13 : content[at + k] \in (48..57) \cup (65..70)
      /\ SubSeq(content, at + 14, at + 15) = <<13, 10>>
      /\ SubSeq(content, at + 16, at + 19) = <<67, 77, 68, 32>>
      /\ SubSeq(content, at + 20, at + 19 + Len(status)) = status
      /\ SubSeq(content, at + 20 + Len(status), at + 21 + Len(status))
           = <<13, 10>>
      /\ extra = 1 => content[Len(content)] = 10

\* The groups of the match for that end.
ReplyGroups(content, status, extra) ==
  LET at == Len(content) - (5 + 8 + 2 + 4 + Len(status) + 2 + extra)
  IN  [matched |-> TRUE,
       message |-> SubSeq(content, 1, at),
       checksum |-> SubSeq(content, at + 6, at + 13),
       status |-> status]

\* _TEXT_REPLY_FORMAT.search(content): the message is the longest there
\* is, so the shortest end is tried first.
TextReplyMatch(content) ==
  IF ReplyEnd(content, <<79, 75>>, 0)
    THEN ReplyGroups(content, <<79, 75>>, 0)
  ELSE IF ReplyEnd(content, <<79, 75>>, 1)
    THEN ReplyGroups(content, <<79, 75>>, 1)
  ELSE IF ReplyEnd(content, <<70, 97, 105, 108, 33>>, 0)
    THEN ReplyGroups(content, <<70, 97, 105, 108, 33>>, 0)
  ELSE IF ReplyEnd(content, <<70, 97, 105, 108, 33>>, 1)
    THEN ReplyGroups(content, <<70, 97, 105, 108, 33>>, 1)
  ELSE NoMatch

\* int(digits, 16) for upper case hexadecimal digits.
RECURSIVE HexValue(_)
HexValue(digits) ==
  IF digits = <<>> THEN 0
  ELSE 16 * HexValue(SubSeq(digits, 1, Len(digits) - 1))
       + HexDigit(digits[Len(digits)])

\* A check that takes every checksum for right.
_verify_checksum_raises_Never(message, expected_checksum_hex) == FALSE

\* _verify_checksum (lines 96-117): whether it raises InvalidChecksum.
_verify_checksum_raises(message, expected_checksum_hex) ==
  HexValue(expected_checksum_hex) # SumBytes(message)

\* message.decode("ascii", "replace").
DecodeAsciiReplace(message) ==
  [k \in 1..Len(message) |-> IF message[k] < 128 THEN message[k] ELSE 65533]

\* send_text_command after its loop (lines 239-253).
TextReply(content) ==
  LET match == TextReplyMatch(content)
  IN  IF ~match.matched THEN Raises("InvalidResponse")
      ELSE IF _verify_checksum_raises(match.message, match.checksum)
        THEN Raises("InvalidChecksum")
      ELSE IF match.status # <<79, 75>> THEN Raises("InvalidResponse")
      ELSE Returns(DecodeAsciiReplace(match.message))

(***************************************************************************)
(* The calls of the session, a step for each report read.                  *)
(***************************************************************************)
\* A call: its name and arguments; `reading` is the setting the next
\* report is read with.
Call(op, message_type, command, encrypted) ==
  [op |-> op, message_type |-> message_type, command |-> command,
   encrypted |-> encrypted, reading |-> encrypted]

NoCall == Call("none", 0, <<>>, FALSE)
NoResult == [raised |-> "none", value |-> <<>>]

\* Where a call stands after a report: the call, the place, the content
\* gathered, the result.
After(call, pc, content, outcome) ==
  [call |-> call, pc |-> pc, content |-> content, result |-> outcome]

Ends(call, content, outcome) ==
  After(call, IF outcome.raised = "none" THEN "returned" ELSE "raised",
        content, outcome)

\* connect (lines 152-156), read_response (lines 178-214), and the loop of
\* send_text_command with what follows it (lines 222-253), from the report
\* `usb_packet` on.
AfterReport(call, reply_type, content, usb_packet) ==
  LET response == read_response(usb_packet, call.reading)
      message == response.message
      gathered == content \o message[2]
  IN  IF response.how = "again"
        THEN After([call EXCEPT !.reading = response.encrypted],
                   "reading", content, NoResult)
      ELSE IF response.how # "none"
        THEN Ends(call, content, Raises(response.how))
      ELSE IF call.op = "read_response"
        THEN Ends(call, content, Returns(message))
      ELSE IF call.op = "connect"
        THEN Ends(call, content,
                  IF _is_init_reply(message) THEN Returns(<<>>)
                  ELSE Raises("ConnectionFailed"))
      ELSE IF message[1] # reply_type
        THEN Ends(call, content, Raises("InvalidResponse"))
      ELSE IF TextComplete(gathered)
        THEN Ends(call, gathered, TextReply(gathered))
      ELSE After(call, "reading", gathered, NoResult)

(***************************************************************************)
(* The reports the meter sends: 64 bytes, the type, the length, the        *)
(* content, zeros.                                                         *)
(***************************************************************************)
Packet(message_type, content) ==
  <<message_type, Len(content)>> \o content
    \o Repeat(0, 62 - Len(content))

\* b'ab', whose bytes sum to 0xC3
TEXT_AB ==
  <<97, 98>>

\* The end of a reply whose message is b'ab'
TEXT_OK_AB ==
  <<67, 75, 83, 77, 58, 48, 48, 48, 48, 48, 48, 67, 51, 13, 10, 67, 77, 68,
    32, 79, 75, 13, 10>>

\* The end of a reply whose message is empty
TEXT_OK_EMPTY ==
  <<67, 75, 83, 77, 58, 48, 48, 48, 48, 48, 48, 48, 48, 13, 10, 67, 77, 68,
    32, 79, 75, 13, 10>>

\* The end of a reply to a command that failed
TEXT_FAIL ==
  <<67, 75, 83, 77, 58, 48, 48, 48, 48, 48, 48, 48, 48, 13, 10, 67, 77, 68,
    32, 70, 97, 105, 108, 33, 13, 10>>

\* An end in two reports: the first
TEXT_OK_HEAD ==
  <<67, 75, 83, 77, 58, 48, 48, 48, 48, 48, 48, 67, 51, 13, 10, 67, 77, 68,
    32, 79>>

\* An end in two reports: the second
TEXT_OK_TAIL ==
  <<75, 13, 10>>

\* An end without a checksum
TEXT_NO_CKSM ==
  <<67, 77, 68, 32, 79, 75, 13, 10>>

\* b'$swver?' (line 326)
SWVER ==
  <<36, 115, 119, 118, 101, 114, 63>>

\* b'$serlnum?' (line 330)
SERLNUM ==
  <<36, 115, 101, 114, 108, 110, 117, 109, 63>>

\* b'$ptname,' and a name of 55 bytes (line 344): 63 bytes, one more than a
\* report takes.
PTNAME_LONG == <<36, 112, 116, 110, 97, 109, 101, 44>> \o Repeat(120, 55)

TEXT_REPLY == 96

\* A report of each type that is never encrypted; the init reply; the
\* unknown message error and another message of its type; the two
\* encryption errors; a message of a type that may be encrypted; the
\* fragments of text replies.
Packets ==
  {Packet(message_type, <<1, 2>>) :
     message_type \in _ALWAYS_UNENCRYPTED_MESSAGES}
  \cup {Packet(_INIT_RESPONSE, <<1>>),
        Packet(_UNKNOWN_MESSAGE_RESPONSE, <<133>>),
        Packet(_UNKNOWN_MESSAGE_RESPONSE, <<1>>),
        Packet(_ENCRYPTION_SETUP_RESPONSE, <<21>>),
        Packet(_ENCRYPTION_SETUP_RESPONSE, <<20>>),
        Packet(49, <<7>>)}
  \cup {Packet(TEXT_REPLY, text) :
          text \in {TEXT_AB, TEXT_OK_AB, TEXT_OK_EMPTY, TEXT_FAIL,
                    TEXT_OK_HEAD, TEXT_OK_TAIL, TEXT_NO_CKSM}}

\* The reports a call reads at most.
MaxPackets == 3

\* The types send_command is called with: those never encrypted, the text
\* command types, one more.
MessageTypes == _ALWAYS_UNENCRYPTED_MESSAGES \cup {33, 49, 96}

Commands == {<<>>, SWVER}

\* No call is under way.
FsIdle == fs_pc \in {"idle", "returned", "raised"}

\* FreeStyleHidSession.__init__ (lines 135-147), with the types
\* FreeStyleHidDevice.__init__ hands it (lines 301-311).
FS_new ==
  /\ fs_pc = "none"
  /\ \E text_cmd \in {33, 96} :
       /\ _text_message_type' = text_cmd
       /\ _text_reply_message_type' = TEXT_REPLY
  /\ fs_pc' = "idle"
  /\ UNCHANGED <<fs_call, full_content, fs_written, fs_read, fs_result>>

\* send_command (lines 158-176), called for itself.
FS_send_command ==
  /\ FsIdle
  /\ \E message_type \in MessageTypes, command \in Commands,
        encrypted \in BOOLEAN :
       \E sent \in {send_command(message_type, command, encrypted)} :
         /\ fs_call' = Call("send_command", message_type, command, encrypted)
         /\ fs_written' = sent.wrote
         /\ fs_result' = [raised |-> sent.raised, value |-> sent.layout]
         /\ fs_pc' = IF sent.raised = "none" THEN "returned" ELSE "raised"
  /\ fs_read' = <<>>
  /\ full_content' = <<>>
  /\ UNCHANGED <<_text_message_type, _text_reply_message_type>>

\* connect up to its read (lines 151-152).
FS_connect ==
  /\ FsIdle
  /\ fs_call' = Call("connect", _INIT_COMMAND, <<>>, FALSE)
  /\ fs_written' = send_command(_INIT_COMMAND, <<>>, FALSE).wrote
  /\ fs_read' = <<>>
  /\ fs_result' = NoResult
  /\ fs_pc' = "reading"
  /\ full_content' = <<>>
  /\ UNCHANGED <<_text_message_type, _text_reply_message_type>>

\* read_response up to its read (line 180), called for itself.
FS_read_response ==
  /\ FsIdle
  /\ \E encrypted \in BOOLEAN :
       fs_call' = Call("read_response", 0, <<>>, encrypted)
  /\ fs_written' = <<>>
  /\ fs_read' = <<>>
  /\ fs_result' = NoResult
  /\ fs_pc' = "reading"
  /\ full_content' = <<>>
  /\ UNCHANGED <<_text_message_type, _text_reply_message_type>>

\* send_text_command up to its first read (lines 218-223), or to the
\* exception send_command raises.
FS_send_text_command ==
  /\ FsIdle
  /\ \E command \in {SWVER, SERLNUM, PTNAME_LONG} :
       \E sent \in {send_command(_text_message_type, command, FALSE)} :
         /\ fs_call' = Call("send_text_command", _text_message_type, command,
                            FALSE)
         /\ fs_written' = sent.wrote
         /\ fs_result' = Raises(sent.raised)
         /\ fs_pc' = IF sent.raised = "none" THEN "reading" ELSE "raised"
  /\ full_content' = <<>>
  /\ fs_read' = <<>>
  /\ UNCHANGED <<_text_message_type, _text_reply_message_type>>

\* The read of a report, and the call from there to its next read or to
\* its end.
FS_report ==
  /\ fs_pc = "reading"
  /\ Len(fs_read) < MaxPackets
  /\ \E usb_packet \in Packets :
       \E after \in {AfterReport(fs_call, _text_reply_message_type,
                                 full_content, usb_packet)} :
         /\ fs_read' = Append(fs_read, usb_packet)
         /\ fs_call' = after.call
         /\ fs_pc' = after.pc
         /\ full_content' = after.content
         /\ fs_result' = after.result
  /\ UNCHANGED <<_text_message_type, _text_reply_message_type, fs_written>>

FsInit ==
  /\ _text_message_type = 0
  /\ _text_reply_message_type = 0
  /\ fs_call = NoCall
  /\ fs_pc = "none"
  /\ full_content = <<>>
  /\ fs_written = <<>>
  /\ fs_read = <<>>
  /\ fs_result = NoResult

FreeStyleNext ==
  /\ \/ FS_new
     \/ FS_send_command
     \/ FS_connect
     \/ FS_read_response
     \/ FS_send_text_command
     \/ FS_report
  /\ UNCHANGED <<ueVars, lisVars, tlvVars, cuVars, mrVars, sdVars, otVars, libreVars, verioVars, crcVars, convVars, ktVars, guVars, tsVars, ckVars, ssVars, lgVars>>

(***************************************************************************)
(* support/freestyle.py: query_multirecord                                 *)
(***************************************************************************)
\* 'Log Empty\r\n' (line 274)
LOG_EMPTY ==
  <<76, 111, 103, 32, 69, 109, 112, 116, 121, 13, 10>>

\* A sentinel without its line end.
IsLogEmpty_Bare(text) == text = SubSeq(LOG_EMPTY, 1, 9)

\* Line 274: message == "Log Empty\r\n".
IsLogEmpty(text) == text = LOG_EMPTY

\* Where the digits that end before `last` begin: the longest run.
RECURSIVE DigitsStart(_, _)
DigitsStart(text, last) ==
  IF last >= 1 /\ IsDigit(text[last]) THEN DigitsStart(text, last - 1)
  ELSE last + 1

\* _MULTIRECORDS_FORMAT (lines 91-93) for the end of the text at which a
\* line feed more follows (`extra` 1) or none (0): a message of at least
\* one character and CR LF, the digits of the count, a comma, eight
\* hexadecimal digits, CR LF.
MultirecordEnd(text, extra) ==
  LET comma == Len(text) - 10 - extra
      start == DigitsStart(text, comma - 1)
  IN  IF /\ comma >= 5
         /\ text[comma] = 44
         /\ \A k \in 1..8 : text[comma + k] \in (48..57) \cup (65..70)
         /\ SubSeq(text, comma + 9, comma + 10) = <<13, 10>>
         /\ extra = 1 => text[Len(text)] = 10
         /\ start < comma
         /\ start >= 4
         /\ SubSeq(text, start - 2, start - 1) = <<13, 10>>
        THEN [matched |-> TRUE,
              message |-> SubSeq(text, 1, start - 1),
              count |-> SubSeq(text, start, comma - 1),
              checksum |-> SubSeq(text, comma + 1, comma + 8)]
      ELSE NoMatch

\* _MULTIRECORDS_FORMAT.search(text).
MultirecordMatch(text) ==
  IF MultirecordEnd(text, 0).matched THEN MultirecordEnd(text, 0)
  ELSE MultirecordEnd(text, 1)

\* str.split("\r\n").
RECURSIVE SplitLines(_)
SplitLines(text) ==
  IF \E i \in 1..(Len(text) - 1) : SubSeq(text, i, i + 1) = <<13, 10>>
    THEN LET i == CHOOSE i \in 1..(Len(text) - 1) :
                    /\ SubSeq(text, i, i + 1) = <<13, 10>>
                    /\ \A j \in 1..(i - 1) : SubSeq(text, j, j + 1) # <<13, 10>>
         IN  <<SubSeq(text, 1, i - 1)>>
               \o SplitLines(SubSeq(text, i + 2, Len(text)))
  ELSE <<text>>

\* csv.reader over lines that hold no quote: the fields between the
\* commas, and no field at all for an empty line.
csv_reader(lines) ==
  [k \in 1..Len(lines) |->
     IF lines[k] = <<>> THEN <<>> ELSE Split(lines[k], 44)]

\* query_multirecord from the return of send_text_command on (lines
\* 272-286); `sent` is what send_text_command came to.
query_multirecord(sent) ==
  LET match == MultirecordMatch(sent.value)
  IN  IF sent.raised # "none" THEN sent
      ELSE IF IsLogEmpty(sent.value) THEN Returns(<<>>)
      ELSE IF ~match.matched THEN Raises("InvalidResponse")
      ELSE IF _verify_checksum_raises(match.message, match.checksum)
        THEN Raises("InvalidChecksum")
      ELSE Returns(csv_reader(SplitLines(match.message)))

\* Eight upper case hexadecimal digits.
Hex8(n) == SliceEnd(Repeat(48, 8) \o HexDigits(n), 8, 0)

\* The records the meter may send, one a line.
RecordLines == {<<49, 44, 50>>, <<51>>}

\* The most records in a reply.
MaxRecords == 2

RECURSIVE RecordBlocks(_)
RecordBlocks(n) ==
  IF n = 0 THEN {<<>>}
  ELSE RecordBlocks(n - 1)
       \cup {block \o line \o <<13, 10>> :
               block \in RecordBlocks(n - 1), line \in RecordLines}

\* Counts: the digits of 0 to 3, and of 12.
RecordCounts == {<<48 + n>> : n \in 0..3} \cup {<<49, 50>>}

\* The bodies of replies: blocks of records with a count and a checksum,
\* right or one too high; the sentinel, whole, bare and with a line more;
\* a text that is neither.
MultirecordBodies ==
  {block \o count \o <<44>> \o Hex8(SumBytes(block) + off) \o <<13, 10>> :
     block \in RecordBlocks(MaxRecords), count \in RecordCounts,
     off \in {0, 1}}
  \cup {LOG_EMPTY, SubSeq(LOG_EMPTY, 1, 9), LOG_EMPTY \o <<13, 10>>,
        <<>>, <<97, 98, 13, 10>>}

\* The reply as send_text_command reads it: the body, its checksum and
\* the status.
TextReplyOf(body, status) ==
  body \o CKSM \o Hex8(SumBytes(body)) \o <<13, 10, 67, 77, 68, 32>>
    \o status \o <<13, 10>>

\* query_multirecord (lines 255-286), the text reply read whole.
FS_query_multirecord ==
  /\ \E body \in MultirecordBodies,
        status \in {<<79, 75>>, <<70, 97, 105, 108, 33>>} :
       /\ mr_content' = TextReplyOf(body, status)
       /\ mr_result' = query_multirecord(TextReply(TextReplyOf(body, status)))
  /\ UNCHANGED <<ueVars, lisVars, tlvVars, cuVars, fsVars, sdVars, otVars, libreVars, verioVars, crcVars, convVars, ktVars, guVars, tsVars, ckVars, ssVars, lgVars>>

MultirecordInit ==
  /\ mr_content = <<>>
  /\ mr_result = NoResult

MultirecordNext == FS_query_multirecord

(***************************************************************************)
(* drivers/sdcodefree.py and drivers/td42xx.py: packets                    *)
(***************************************************************************)
\* functools.reduce(operator.xor, msg) (sdcodefree.py, lines 34-35), and
\* the TypeError of reduce for an empty msg.
RECURSIVE xor_checksum(_)
xor_checksum(msg) ==
  IF Len(msg) = 1 THEN msg[1]
  ELSE BitXor(xor_checksum(SubSeq(msg, 1, Len(msg) - 1)), msg[Len(msg)])

\* Direction (sdcodefree.py, lines 38-40).
SD_Direction == {32, 16}

\* The fields of a packet read, for a field that does not parse the
\* exception construct raises.
Parsed(raised, value) == [raised |-> raised, value |-> value]

\* _PACKET.parse_stream (sdcodefree.py, lines 43-50) on the bytes `stream`
\* holds: the start, the direction, the length, the message of length - 2
\* bytes, its checksum, the end.  What follows the end is left unread.
SD_PACKET_parse(stream) ==
  IF Len(stream) < 1 THEN Raises("StreamError")
  ELSE IF stream[1] # 83 THEN Raises("ConstError")
  ELSE IF Len(stream) < 2 THEN Raises("StreamError")
  ELSE IF stream[2] \notin SD_Direction THEN Raises("MappingError")
  ELSE IF Len(stream) < 3 THEN Raises("StreamError")
  ELSE IF stream[3] < 2 \/ Len(stream) < stream[3] + 1
    THEN Raises("StreamError")
  ELSE IF Len(stream) < stream[3] + 2 THEN Raises("StreamError")
  ELSE IF stream[3] = 2 THEN Raises("TypeError")
  ELSE IF stream[stream[3] + 2] # xor_checksum(SubSeq(stream, 4, stream[3] + 1))
    THEN Raises("ChecksumError")
  ELSE IF Len(stream) < stream[3] + 3 THEN Raises("StreamError")
  ELSE IF stream[stream[3] + 3] # 170 THEN Raises("ConstError")
  ELSE Returns(SubSeq(stream, 4, stream[3] + 1))

\* _PACKET.build in send_message (sdcodefree.py, lines 130-133).
SD_PACKET_build(msg, direction) ==
  <<83, direction, Len(msg) + 2>> \o msg \o <<xor_checksum(msg), 170>>

\* A count read low byte first.
Int16ub_Little(data) == data[1] + 256 * data[2]

\* construct.Int16ub: two bytes, the high one first.
Int16ub(data) == 256 * data[1] + data[2]

\* _FIRST_MESSAGE.parse (sdcodefree.py, lines 52-56).
FIRST_MESSAGE_parse(msg) ==
  IF Len(msg) < 1 THEN Raises("StreamError")
  ELSE IF msg[1] # 48 THEN Raises("ConstError")
  ELSE IF Len(msg) < 3 THEN Raises("StreamError")
  ELSE IF \E k \in 4..Min(Len(msg), 22) : msg[k] # 170
    THEN Raises("ConstError")
  ELSE IF Len(msg) < 22 THEN Raises("StreamError")
  ELSE Returns(Int16ub(SubSeq(msg, 2, 3)))

\* sdcodefree.py, line 58
_CHALLENGE_PACKET_FULL ==
  <<83, 32, 4, 16, 48, 32, 170>>

\* sdcodefree.py, line 59
_RESPONSE_MESSAGE ==
  <<16, 64>>

\* How many null bytes `stream` begins with.
RECURSIVE LeadingNulls(_)
LeadingNulls(stream) ==
  IF stream # <<>> /\ stream[1] = 0 THEN 1 + LeadingNulls(Tail(stream))
  ELSE 0

\* What wait_and_ready comes to: what it wrote, and its return or
\* exception.
Ready(wrote, outcome) == [wrote |-> wrote, outcome |-> outcome]

\* Device.wait_and_ready (sdcodefree.py, lines 97-128) on the bytes the
\* serial port yields; a read past them times out and returns what there
\* is.
wait_and_ready(stream) ==
  LET rest == Drop(stream, LeadingNulls(stream))
      challenge == Take(rest, 7)
      first == SD_PACKET_parse(Drop(rest, 7))
  IN  IF Take(rest, 1) # <<83>>
        THEN Ready(<<>>, Raises("ConnectionFailed"))
      ELSE IF challenge # _CHALLENGE_PACKET_FULL
        THEN Ready(<<>>, Raises("ConnectionFailed"))
      ELSE IF first.raised # "none"
        THEN Ready(<<SD_PACKET_build(_RESPONSE_MESSAGE, 16)>>, first)
      ELSE Ready(<<SD_PACKET_build(_RESPONSE_MESSAGE, 16)>>,
                 FIRST_MESSAGE_parse(first.value))

\* Direction (td42xx.py, lines 31-33).
TD_Direction == {165, 163}

\* A checksum that leaves the direction out.
byte_checksum_NoDirection(data) == SumBytes(SubSeq(data, 1, 6)) % 256

\* byte_checksum (td42xx.py, lines 36-37).
byte_checksum(data) == SumBytes(data) % 256

\* _PACKET.parse (td42xx.py, lines 40-54): the constant, the command, the
\* four bytes of the message, the direction, and the checksum of these
\* seven bytes.
TD_PACKET_parse(stream) ==
  IF Len(stream) < 1 THEN Raises("StreamError")
  ELSE IF stream[1] # 81 THEN Raises("ConstError")
  ELSE IF Len(stream) < 7 THEN Raises("StreamError")
  ELSE IF stream[7] \notin TD_Direction THEN Raises("MappingError")
  ELSE IF Len(stream) < 8 THEN Raises("StreamError")
  ELSE IF stream[8] # byte_checksum(SubSeq(stream, 1, 7))
    THEN Raises("ChecksumError")
  ELSE Returns(<<stream[2], SubSeq(stream, 3, 6)>>)

\* _make_packet (td42xx.py, lines 113-126).
_make_packet(command, msg, direction) ==
  <<81, command>> \o msg \o <<direction>>
    \o <<byte_checksum(<<81, command>> \o msg \o <<direction>>)>>

\* The message the meter sends first: 0x30, the count, nineteen 0xAA.
FirstMessage(count) ==
  <<48, count \div 256, count % 256>> \o Repeat(170, 19)

\* Frames of the SD CodeFree meter: a first message, the answer to
\* disconnect, and a message of three bytes.
SD_Frames ==
  {SD_PACKET_build(FirstMessage(258), 32),
   SD_PACKET_build(<<16, 112>>, 32),
   SD_PACKET_build(<<48, 48, 170>>, 32)}

\* Frames of the TaiDoc meter: the answers to connect, to the count of
\* readings and to the value of a reading.
TD_Frames ==
  {_make_packet(34, <<0, 0, 0, 0>>, 165),
   _make_packet(43, <<5, 0, 0, 0>>, 165),
   _make_packet(38, <<100, 0, 0, 64>>, 165)}

\* The frame with the byte at `at` replaced, whole for `at` 0.
Replaced(frame, at, byte) ==
  IF at = 0 THEN frame ELSE [frame EXCEPT ![at] = byte]

\* The null bytes before a challenge, at most.
MaxNulls == 2

\* What the meter sends for the challenge: the challenge, whole or cut
\* short, or with one byte of it another.
Challenges ==
  {Take(_CHALLENGE_PACKET_FULL, n) : n \in 0..7}
  \cup {[_CHALLENGE_PACKET_FULL EXCEPT ![k] = byte] :
          k \in 1..7, byte \in {0, 1, 83}}

\* What it sends after the response: a first message, sound or not, or
\* nothing.
FirstPackets ==
  {SD_PACKET_build(FirstMessage(count), 32) : count \in {0, 1, 258, 65535}}
  \cup {SD_PACKET_build(<<49, 0, 1>> \o Repeat(170, 19), 32),
        SD_PACKET_build(<<48, 0, 1>> \o Repeat(170, 18), 32),
        SD_PACKET_build(<<48, 0, 1>> \o Repeat(170, 18) \o <<0>>, 32),
        [SD_PACKET_build(FirstMessage(1), 32) EXCEPT ![26] = 0],
        Take(SD_PACKET_build(FirstMessage(1), 32), 20),
        <<>>}

\* No call was made yet.  The calls of these drivers keep nothing from one
\* to the next, so a behaviour makes one call.
NoCallYet == sd_serial = <<>> /\ pkt_decoder = "none"

\* The last call was not wait_and_ready.
NotReady ==
  /\ sd_serial = <<>>
  /\ sd_written = <<>>
  /\ sd_result = NoResult

\* The last call parsed no packet for itself.
NoPacket ==
  /\ pkt_decoder = "none"
  /\ pkt_frame = <<>>
  /\ pkt_at = 0
  /\ pkt_parsed = <<>>
  /\ pkt_result = NoResult

\* Device.wait_and_ready (sdcodefree.py, lines 97-128).
SD_wait_and_ready ==
  /\ NoCallYet
  /\ \E nulls \in 0..MaxNulls, challenge \in Challenges,
        first \in FirstPackets :
       \E ready \in {wait_and_ready(Repeat(0, nulls) \o challenge \o first)} :
         /\ sd_serial' = Repeat(0, nulls) \o challenge \o first
         /\ sd_written' = ready.wrote
         /\ sd_result' = ready.outcome
  /\ pkt_decoder' = "none"
  /\ pkt_frame' = <<>>
  /\ pkt_at' = 0
  /\ pkt_parsed' = <<>>
  /\ pkt_result' = NoResult
  /\ UNCHANGED <<ueVars, lisVars, tlvVars, cuVars, fsVars, mrVars, otVars, libreVars, verioVars, crcVars, convVars, ktVars, guVars, tsVars, ckVars, ssVars, lgVars>>

\* Device.read_message (sdcodefree.py, lines 92-95) on a frame of the
\* meter, whole or with one byte replaced.
SD_read_message ==
  /\ NoCallYet
  /\ \E frame \in SD_Frames :
       \E at \in 0..Len(frame), byte \in 0..255 :
         /\ at # 0 => byte # frame[at]
         /\ at = 0 => byte = 0
         /\ pkt_decoder' = "sdcodefree"
         /\ pkt_frame' = frame
         /\ pkt_at' = at
         /\ pkt_parsed' = Replaced(frame, at, byte)
         /\ pkt_result' = SD_PACKET_parse(Replaced(frame, at, byte))
  /\ sd_serial' = <<>>
  /\ sd_written' = <<>>
  /\ sd_result' = NoResult
  /\ UNCHANGED <<ueVars, lisVars, tlvVars, cuVars, fsVars, mrVars, otVars, libreVars, verioVars, crcVars, convVars, ktVars, guVars, tsVars, ckVars, ssVars, lgVars>>

\* The parse of _send_command (td42xx.py, line 162) on a frame of the
\* meter, whole or with one byte replaced.
TD_parse_stream ==
  /\ NoCallYet
  /\ \E frame \in TD_Frames :
       \E at \in 0..Len(frame), byte \in 0..255 :
         /\ at # 0 => byte # frame[at]
         /\ at = 0 => byte = 0
         /\ pkt_decoder' = "td42xx"
         /\ pkt_frame' = frame
         /\ pkt_at' = at
         /\ pkt_parsed' = Replaced(frame, at, byte)
         /\ pkt_result' = TD_PACKET_parse(Replaced(frame, at, byte))
  /\ sd_serial' = <<>>
  /\ sd_written' = <<>>
  /\ sd_result' = NoResult
  /\ UNCHANGED <<ueVars, lisVars, tlvVars, cuVars, fsVars, mrVars, otVars, libreVars, verioVars, crcVars, convVars, ktVars, guVars, tsVars, ckVars, ssVars, lgVars>>

SerialPacketsInit == NotReady /\ NoPacket

SerialPacketsNext ==
  \/ SD_wait_and_ready
  \/ SD_read_message
  \/ TD_parse_stream

(***************************************************************************)
(* drivers/otultra2.py                                                     *)
(***************************************************************************)
\* [0-9A-F] of _RESPONSE_MATCH.
IsUpperHex(c) == c \in 48..57 \/ c \in 65..70

\* Where "$" of _RESPONSE_MATCH matches for "\r" to stand before it: at
\* the end of the line, or before a line feed that ends the line.
ResponseEnd(line) ==
  IF line # <<>> /\ line[Len(line)] = ASCII_LF THEN Len(line) - 1
  ELSE Len(line)

\* _RESPONSE_MATCH.match (otultra2.py, line 53): "^(.+) ([0-9A-F]{4})\r$",
\* where "." is any character but a line feed.  The groups, or no match.
_RESPONSE_MATCH(line) ==
  LET end == ResponseEnd(line)
  IN  IF /\ end >= 7
         /\ line[end] = ASCII_CR
         /\ \A k \in (end - 4)..(end - 1) : IsUpperHex(line[k])
         /\ line[end - 5] = 32
         /\ \A k \in 1..(end - 6) : line[k] # ASCII_LF
        THEN [matched |-> TRUE,
              response |-> SubSeq(line, 1, end - 6),
              checksum_string |-> SubSeq(line, end - 4, end - 1)]
        ELSE [matched |-> FALSE, response |-> <<>>, checksum_string |-> <<>>]

\* The checksum of the bytes from..to of bytestring: the sum of the two
\* halves, modulo 16-bit, which is what adding them one by one modulo
\* 16-bit comes to.
RECURSIVE ChecksumOf(_, _, _)
ChecksumOf(bytestring, from, to) ==
  IF from > to THEN 0
  ELSE IF from = to THEN bytestring[from] % 65536
  ELSE (ChecksumOf(bytestring, from, (from + to) \div 2)
        + ChecksumOf(bytestring, (from + to) \div 2 + 1, to)) % 65536

\* A checksum of eight bits.
_calculate_checksum_Byte(bytestring) ==
  ChecksumOf(bytestring, 1, Len(bytestring)) % 256

\* _calculate_checksum (otultra2.py, lines 56-73): the bytes summed,
\* modulo 16-bit.
_calculate_checksum(bytestring) == ChecksumOf(bytestring, 1, Len(bytestring))

\* _validate_and_strip_checksum (otultra2.py, lines 76-99).  A response
\* that is not ASCII makes bytes() raise UnicodeEncodeError, a ValueError,
\* which the function turns into InvalidChecksum.
_validate_and_strip_checksum(line) ==
  LET match == _RESPONSE_MATCH(line)
  IN  IF ~match.matched THEN Raises("MissingChecksum")
      ELSE IF \E k \in 1..Len(match.response) : match.response[k] > 127
        THEN Raises("InvalidChecksum")
      ELSE IF HexValue(match.checksum_string)
                # _calculate_checksum(match.response)
        THEN Raises("InvalidChecksum")
      ELSE Returns(match.response)

\* Four hexadecimal digits of n, upper case.
Hex4(n) == SliceEnd(Repeat(48, 4) \o HexDigits(n), 4, 0)

\* The digits with the letters in lower case.
LowerCase(text) ==
  [k \in 1..Len(text) |-> IF text[k] \in 65..90 THEN text[k] + 32 ELSE text[k]]

\* How long a response must be for its sum to pass 16 bits: 517 bytes of
\* 0x7F sum to 65659.
LongResponse == 517

\* Responses of the meter before the checksum: none, 'T', 'TTTT', 'k',
\* two lines in one, a response with a checksum of its own, one that is not
\* ASCII, and a long one.
OT_Responses ==
  {<<>>, <<84>>, <<84, 84, 84, 84>>, <<107>>, <<65, 10, 66>>,
   <<84, 32, 48, 48, 53, 52, 13>>, <<233>>, Repeat(127, LongResponse)}

\* What stands between the response and the checksum.
OT_Separators == {<<32>>, <<>>, <<44>>}

\* The checksums the lines carry: the right one, in upper and in lower
\* case, the one after it, one of three digits, and 13AZ.
OT_Checksums(response) ==
  {Hex4(_calculate_checksum(response)),
   LowerCase(Hex4(_calculate_checksum(response))),
   Hex4((_calculate_checksum(response) + 1) % 65536),
   SliceEnd(Hex4(_calculate_checksum(response)), 3, 0),
   <<49, 51, 65, 90>>}

\* How the lines end.
OT_Endings ==
  {<<13>>, <<13, 10>>, <<>>, <<10>>, <<13, 13>>, <<13, 10, 10>>, <<13, 32>>}

\* The lines given to _validate_and_strip_checksum.
OT_Lines ==
  UNION {{response \o separator \o digits \o ending :
            separator \in OT_Separators,
            digits \in OT_Checksums(response),
            ending \in OT_Endings} : response \in OT_Responses}

\* A pattern of fixed width: for each place the characters it takes.
Lit(text) == [k \in 1..Len(text) |-> {text[k]}]
Class(chars, n) == [k \in 1..n |-> chars]

\* re.match of a pattern of fixed width: the text begins with it.
MatchesStart(text, pattern) ==
  /\ Len(text) >= Len(pattern)
  /\ \A k \in 1..Len(pattern) : text[k] \in pattern[k]

UpperCaseLetters == 65..90
DecimalDigits == 48..57

\* _DUMP_HEADER_RE (otultra2.py, line 46):
\* P ([0-9]{3}),"[0-9A-Z]{9}","(?:MG/DL |MMOL/L)"
_DUMP_HEADER_RE(unit) ==
  Lit(<<80, 32>>) \o Class(DecimalDigits, 3) \o Lit(<<44, 34>>)
    \o Class(DecimalDigits \cup UpperCaseLetters, 9) \o Lit(<<34, 44, 34>>)
    \o Lit(unit) \o Lit(<<34>>)

\* (?P<datetime>"[A-Z]{3}","[0-9/]{8}","[0-9:]{8}   ") of _DUMP_LINE_RE
\* (otultra2.py, line 48).
DatetimeGroup ==
  Lit(<<34>>) \o Class(UpperCaseLetters, 3) \o Lit(<<34, 44, 34>>)
    \o Class(DecimalDigits \cup {47}, 8) \o Lit(<<34, 44, 34>>)
    \o Class(DecimalDigits \cup {58}, 8) \o Lit(<<32, 32, 32, 34>>)

\* _DUMP_LINE_RE (otultra2.py, lines 47-51), for a comment that begins
\* with 0 or with 1.
_DUMP_LINE_RE(tens) ==
  Lit(<<80, 32>>) \o DatetimeGroup \o Lit(<<44, 34>>)
    \o Class({67, 32}, 1) \o Lit(<<32>>) \o Class(DecimalDigits, 3)
    \o Class({63, 32}, 1) \o Lit(<<34, 44, 34>>)
    \o Class({78, 66, 65}, 1) \o Lit(<<34, 44, 34>>)
    \o (IF tens = 0 THEN Lit(<<48>>) \o Class(DecimalDigits, 1)
        ELSE Lit(<<49>>) \o Class({48, 49}, 1))
    \o Lit(<<34, 44, 32, 48, 48>>)

\* _DATETIME_RE (otultra2.py, lines 102-104):
\* ^"[A-Z]{3}","([0-9]{2}/[0-9]{2}/[0-9]{2})","([0-9]{2}:[0-9]{2}:[0-9]{2})   "$
_DATETIME_RE ==
  Lit(<<34>>) \o Class(UpperCaseLetters, 3) \o Lit(<<34, 44, 34>>)
    \o Class(DecimalDigits, 2) \o Lit(<<47>>) \o Class(DecimalDigits, 2)
    \o Lit(<<47>>) \o Class(DecimalDigits, 2) \o Lit(<<34, 44, 34>>)
    \o Class(DecimalDigits, 2) \o Lit(<<58>>) \o Class(DecimalDigits, 2)
    \o Lit(<<58>>) \o Class(DecimalDigits, 2) \o Lit(<<32, 32, 32, 34>>)

\* _parse_datetime (otultra2.py, lines 107-128): the date and time of the
\* response as <<year, month, day, hour, minute, second>>, InvalidResponse
\* for a response _DATETIME_RE does not match, ValueError for a date or a
\* time there is none of.
_parse_datetime(response) ==
  IF ~(MatchesStart(response, _DATETIME_RE)
       /\ (Len(response) = Len(_DATETIME_RE)
           \/ (Len(response) = Len(_DATETIME_RE) + 1
               /\ response[Len(response)] = ASCII_LF)))
    THEN Raises("InvalidResponse")
  ELSE
    LET month == DigitsValue(SubSeq(response, 8, 9))
        day == DigitsValue(SubSeq(response, 11, 12))
        year == DigitsValue(SubSeq(response, 14, 15))
        hour == DigitsValue(SubSeq(response, 19, 20))
        minute == DigitsValue(SubSeq(response, 22, 23))
        second == DigitsValue(SubSeq(response, 25, 26))
    IN  IF /\ month \in 1..12
           /\ day \in 1..DaysInMonth(2000 + year, month)
           /\ hour < 24 /\ minute < 60 /\ second < 60
          THEN Returns(<<2000 + year, month, day, hour, minute, second>>)
          ELSE Raises("ValueError")

\* common.GlucoseReading as get_readings builds it.
OT_GlucoseReading(timestamp, value, meal, comment) ==
  [timestamp |-> timestamp, value |-> value, meal |-> meal,
   comment |-> comment]

\* What get_readings comes to: the readings it yielded and the exception
\* that ended it, if any.
Yielded(readings, raised) == [raised |-> raised, value |-> readings]

\* bytes.decode("ascii") fails on a byte above 0x7F.
IsAscii(data) == \A k \in 1..Len(data) : data[k] < 128

\* The loop of get_readings (otultra2.py, lines 309-324) over the lines
\* from the k-th on.
RECURSIVE ReadDumpLines(_, _, _)
ReadDumpLines(data, k, readings) ==
  IF k > Len(data) THEN Yielded(readings, "none")
  ELSE IF ~IsAscii(data[k]) THEN Yielded(readings, "UnicodeDecodeError")
  ELSE
    LET line == _validate_and_strip_checksum(data[k])
        date == _parse_datetime(SubSeq(line.value, 3, 32))
    IN  IF line.raised # "none" THEN Yielded(readings, line.raised)
        ELSE IF ~(MatchesStart(line.value, _DUMP_LINE_RE(0))
                  \/ MatchesStart(line.value, _DUMP_LINE_RE(1)))
          THEN Yielded(readings, "InvalidResponse")
        ELSE IF date.raised # "none" THEN Yielded(readings, date.raised)
        ELSE ReadDumpLines(data, k + 1,
               Append(readings,
                 OT_GlucoseReading(date.value,
                   DigitsValue(SubSeq(line.value, 37, 39)),
                   line.value[44], SubSeq(line.value, 48, 49))))

\* Device.get_readings (otultra2.py, lines 282-324) on the lines
\* readlines() gives, consumed to its end.
OT_get_readings(data) ==
  IF data = <<>> THEN Yielded(<<>>, "IndexError")
  ELSE IF ~IsAscii(data[1]) THEN Yielded(<<>>, "UnicodeDecodeError")
  ELSE IF ~(MatchesStart(data[1], _DUMP_HEADER_RE(<<77, 71, 47, 68, 76, 32>>))
            \/ MatchesStart(data[1], _DUMP_HEADER_RE(<<77, 77, 79, 76, 47, 76>>)))
    THEN Yielded(<<>>, "InvalidResponse")
  ELSE IF DigitsValue(SubSeq(data[1], 3, 5)) # Len(data) - 1
    THEN Yielded(<<>>, "AssertionError")
  ELSE ReadDumpLines(Tail(data), 1, <<>>)

\* A line as the meter sends it: the text, a space, its checksum, CR LF.
WithChecksum(text, off) ==
  text \o <<32>> \o Hex4((_calculate_checksum(text) + off) % 65536)
    \o <<13, 10>>

\* A line of the dump before its checksum.
DumpLine(date, time, value, meal, comment) ==
  <<80, 32, 34, 83, 65, 84, 34, 44, 34>> \o date \o <<34, 44, 34>> \o time \o <<32, 32, 32, 34, 44, 34, 32, 32>> \o value
    \o <<32, 34, 44, 34>> \o meal \o <<34, 44, 34>> \o comment \o <<34, 44, 32, 48, 48>>

\* Two sound lines of a dump.
GoodLines ==
  {WithChecksum(DumpLine(<<48, 56, 47, 48, 51, 47, 49, 51>>, <<50, 50, 58, 49, 50, 58, 48, 48>>, <<49, 48, 53>>, <<78>>, <<48, 48>>), 0),
   WithChecksum(DumpLine(<<48, 56, 47, 48, 52, 47, 49, 51>>, <<48, 55, 58, 51, 48, 58, 49, 53>>, <<48, 57, 56>>, <<66>>, <<49, 49>>), 0)}

\* Malformed lines: a checksum that is wrong, none, a line with too few
\* fields, one of another format, a date of a thirteenth month, a date
\* _DATETIME_RE does not match, and a comment code there is none of.
BadLines ==
  {WithChecksum(DumpLine(<<48, 56, 47, 48, 51, 47, 49, 51>>, <<50, 50, 58, 49, 50, 58, 48, 48>>, <<49, 48, 53>>, <<78>>, <<48, 48>>), 1),
   DumpLine(<<48, 56, 47, 48, 51, 47, 49, 51>>, <<50, 50, 58, 49, 50, 58, 48, 48>>, <<49, 48, 53>>, <<78>>, <<48, 48>>) \o <<13, 10>>,
   WithChecksum(Take(DumpLine(<<48, 56, 47, 48, 51, 47, 49, 51>>, <<50, 50, 58, 49, 50, 58, 48, 48>>, <<49, 48, 53>>, <<78>>, <<48, 48>>), 40), 0),
   WithChecksum(<<80, 32, 48, 48, 50, 44, 34, 65, 66, 67, 68, 69, 70, 71, 72, 89, 34, 44,
  34, 77, 71, 47, 68, 76, 32, 34>>, 0),
   WithChecksum(DumpLine(<<49, 51, 47, 48, 51, 47, 49, 51>>, <<50, 50, 58, 49, 50, 58, 48, 48>>, <<49, 48, 53>>, <<78>>, <<48, 48>>), 0),
   WithChecksum(DumpLine(<<56, 47, 48, 51, 47, 48, 49, 51>>, <<50, 50, 58, 49, 50, 58, 48, 48>>, <<49, 48, 53>>, <<78>>, <<48, 48>>), 0),
   WithChecksum(DumpLine(<<48, 56, 47, 48, 51, 47, 49, 51>>, <<50, 50, 58, 49, 50, 58, 48, 48>>, <<49, 48, 53>>, <<78>>, <<49, 50>>), 0)}

\* The lines of a dump, at most.
MaxLines == 2

\* The dumps of up to n lines.
RECURSIVE Dumps(_)
Dumps(n) ==
  IF n = 0 THEN {<<>>}
  ELSE Dumps(n - 1)
       \cup {Append(dump, line) : dump \in Dumps(n - 1),
                                  line \in GoodLines \cup BadLines}

\* The header of a dump that announces `count` lines.
DumpHeader(count) ==
  WithChecksum(<<80, 32, 48, 48>> \o <<48 + count>> \o <<44, 34, 65, 66, 67, 68, 69, 70, 71, 72, 89, 34, 44, 34, 77, 71, 47, 68,
  76, 32, 34>>, 0)

\* What readlines() gives: a header and the lines it counts, a header that
\* counts one more, no header, or nothing.
OT_Data ==
  {<<DumpHeader(Len(dump))>> \o dump : dump \in Dumps(MaxLines)}
  \cup {<<DumpHeader(Len(dump) + 1)>> \o dump : dump \in Dumps(MaxLines)}
  \cup Dumps(MaxLines)

\* No call of get_readings was made.
NoReadings ==
  /\ ot_data = <<>>
  /\ ot_readings = NoResult

\* _validate_and_strip_checksum (otultra2.py, lines 76-99) on a line.
OT_validate_and_strip_checksum ==
  /\ \E line \in OT_Lines :
       /\ ot_line' = line
       /\ ot_stripped' = _validate_and_strip_checksum(line)
  /\ ot_data' = <<>>
  /\ ot_readings' = NoResult
  /\ UNCHANGED <<ueVars, lisVars, tlvVars, cuVars, fsVars, mrVars, sdVars, libreVars, verioVars, crcVars, convVars, ktVars, guVars, tsVars, ckVars, ssVars, lgVars>>

Ultra2Init ==
  /\ ot_line = <<>>
  /\ ot_stripped = NoResult
  /\ NoReadings

Ultra2Next ==
  \/ OT_validate_and_strip_checksum

(***************************************************************************)
(* support/freestyle_libre.py                                              *)
(***************************************************************************)
\* freestyle_libre.py, lines 22-31
_BASE_ENTRY_MAP ==
  <<<<0, "device_id">>, <<1, "type">>, <<2, "month">>, <<3, "day">>,
    <<4, "year">>, <<5, "hour">>, <<6, "minute">>, <<7, "second">>>>

\* freestyle_libre.py, lines 34-37
_HISTORY_ENTRY_MAP ==
  _BASE_ENTRY_MAP \o <<<<13, "value">>, <<15, "errors">>>>

\* freestyle_libre.py, lines 40-54
_ARRESULT_TYPE2_ENTRY_MAP ==
  <<<<9, "reading-type">>, <<12, "value">>, <<15, "sport-flag">>,
    <<16, "medication-flag">>, <<17, "rapid-acting-flag">>,
    <<18, "long-acting-flag">>, <<19, "custom-comments-bitfield">>,
    <<23, "double-long-acting-insulin">>, <<25, "food-flag">>,
    <<26, "food-carbs-grams">>, <<28, "errors">>>>

\* freestyle_libre.py, lines 56-63
_ARRESULT_TIME_ADJUSTMENT_ENTRY_MAP ==
  <<<<9, "old_month">>, <<10, "old_day">>, <<11, "old_year">>,
    <<12, "old_hour">>, <<13, "old_minute">>, <<14, "old_second">>>>

\* freestyle_libre.py, line 66
_ARRESULT_RAPID_INSULIN_ENTRY_MAP ==
  <<<<43, "double-rapid-acting-insulin">>>>

\* int(field) for a field of decimal digits, with a minus sign before
\* them or none; ValueError for a field that is empty or holds another
\* character.
int(field) ==
  IF field # <<>> /\ \A k \in 1..Len(field) : IsDigit(field[k])
    THEN Returns(DigitsValue(field))
  ELSE IF /\ Len(field) > 1
          /\ field[1] = 45
          /\ \A k \in 2..Len(field) : IsDigit(field[k])
    THEN Returns(0 - DigitsValue(Tail(field)))
  ELSE Raises("ValueError")

\* dict.update: the entries of `other` over those of `dict`.
Update(dict, other) ==
  [key \in DOMAIN dict \cup DOMAIN other |->
     IF key \in DOMAIN other THEN other[key] ELSE dict[key]]

\* The comprehension of _parse_record from the k-th entry of the map on:
\* the IndexError of a field that is missing gives {}, the ValueError of a
\* field that is no integer is raised.
RECURSIVE ParseEntries(_, _, _, _)
ParseEntries(record, entry_map, k, dict) ==
  IF k > Len(entry_map) THEN Returns(dict)
  ELSE IF entry_map[k][1] + 1 > Len(record) THEN Returns(<<>>)
  ELSE IF int(record[entry_map[k][1] + 1]).raised # "none"
    THEN Raises("ValueError")
  ELSE ParseEntries(record, entry_map, k + 1,
         Update(dict, [key \in {entry_map[k][2]} |->
                         int(record[entry_map[k][1] + 1]).value]))

\* A record parsed whatever it holds.
_parse_record_Lenient(record, entry_map) ==
  [raised |-> "none",
   value |-> [key \in {entry_map[k][2] : k \in 1..Len(entry_map)} |-> 0]]

\* _parse_record (freestyle_libre.py, lines 69-81).
_parse_record(record, entry_map) ==
  IF record = <<>> THEN Returns(<<>>)
  ELSE ParseEntries(record, entry_map, 1, <<>>)

\* datetime.datetime(year, month, day, hour, minute, second): ValueError
\* for a date or a time there is none of.
datetime(year, month, day, hour, minute, second) ==
  IF /\ year \in 1..9999
     /\ month \in 1..12
     /\ day \in 1..DaysInMonth(year, month)
     /\ hour \in 0..23 /\ minute \in 0..59 /\ second \in 0..59
    THEN Returns(<<year, month, day, hour, minute, second>>)
    ELSE Raises("ValueError")

\* _extract_timestamp (freestyle_libre.py, lines 84-99): KeyError for a
\* record that was parsed without the fields of the prefix.
_extract_timestamp(parsed_record, prefix) ==
  IF \E name \in {"year", "month", "day", "hour", "minute", "second"} :
       (prefix \o name) \notin DOMAIN parsed_record
    THEN Raises("KeyError")
  ELSE datetime(parsed_record[prefix \o "year"] + 2000,
                parsed_record[prefix \o "month"],
                parsed_record[prefix \o "day"],
                parsed_record[prefix \o "hour"],
                parsed_record[prefix \o "minute"],
                parsed_record[prefix \o "second"])

\* The readings of common: a GlucoseReading or a KetoneReading with its
\* timestamp, value, comment, measure method and the device id of its
\* extra data, or a TimeAdjustment with the new timestamp and the old.
LibreReading(cls, timestamp, value, comment, measure_method, device_id) ==
  [cls |-> cls, timestamp |-> timestamp, value |-> value,
   comment |-> comment, measure_method |-> measure_method,
   device_id |-> device_id]

\* None, where a reading could be.
NoReading == LibreReading("None", <<>>, <<>>, <<>>, "", 0)

\* A part of a comment: its words, and what it holds of the record.
Part(text, data) == [text |-> text, data |-> data]

\* convert_ketone_unit (freestyle.py, lines 120-128): raw_value / 18.0, as
\* a fraction.
convert_ketone_unit(raw_value) == <<raw_value, 18>>

\* Every custom comment taken as set.
BitSet_Always(bitfield, comment_index) == TRUE

\* Whether bit comment_index of the bitfield is set (freestyle_libre.py,
\* line 159).
BitSet(bitfield, comment_index) ==
  (bitfield \div (2 ^ comment_index)) % 2 = 1

\* The parts for the custom comments (freestyle_libre.py, lines 157-160)
\* from comment_index on; IndexError for a bit set whose comment the record
\* does not hold.
RECURSIVE CustomComments(_, _, _, _)
CustomComments(record, bitfield, comment_index, parts) ==
  IF comment_index > 5 THEN Returns(parts)
  ELSE IF ~BitSet(bitfield, comment_index)
    THEN CustomComments(record, bitfield, comment_index + 1, parts)
  ELSE IF Len(record) < 29 + comment_index + 1 THEN Raises("IndexError")
  ELSE CustomComments(record, bitfield, comment_index + 1,
         Append(parts, Part("custom", record[29 + comment_index + 1])))

\* Half of a doubled dose to one decimal: the units and the tenths.
HalfDose(double) == <<double \div 2, 5 * (double % 2)>>

\* The parts after the custom comments (freestyle_libre.py, lines 162-187).
FlagComments(parsed_record) ==
  (IF parsed_record["sport-flag"] # 0 THEN <<Part("Sport", <<>>)>> ELSE <<>>)
  \o (IF parsed_record["medication-flag"] # 0
        THEN <<Part("Medication", <<>>)>> ELSE <<>>)
  \o (IF parsed_record["food-flag"] = 0 THEN <<>>
      ELSE IF parsed_record["food-carbs-grams"] # 0
        THEN <<Part("Food", <<parsed_record["food-carbs-grams"]>>)>>
      ELSE <<Part("Food", <<>>)>>)
  \o (IF parsed_record["long-acting-flag"] = 0 THEN <<>>
      ELSE IF parsed_record["double-long-acting-insulin"] # 0
        THEN <<Part("Long-acting insulin",
                    HalfDose(parsed_record["double-long-acting-insulin"]))>>
      ELSE <<Part("Long-acting insulin", <<>>)>>)
  \o (IF parsed_record["rapid-acting-flag"] = 0 THEN <<>>
      ELSE IF "double-rapid-acting-insulin" \in DOMAIN parsed_record
        THEN <<Part("Rapid-acting insulin",
                    HalfDose(parsed_record["double-rapid-acting-insulin"]))>>
      ELSE <<Part("Rapid-acting insulin", <<>>)>>)

\* Every record of type 2 a glucose reading taken from blood.
ParseType2_Glucose(record, parsed_record) ==
  Returns(LibreReading("GlucoseReading", <<>>, <<parsed_record["value"], 1>>,
                       <<>>, "BLOOD_SAMPLE", parsed_record["device_id"]))

\* _parse_arresult from line 121 on, for a record of type 2 parsed with
\* the fields of its type, and of the rapid insulin when the flag is set.
ParseType2(record, parsed_record) ==
  LET reading_type == parsed_record["reading-type"]
      comments == CustomComments(record,
                    parsed_record["custom-comments-bitfield"], 0, <<>>)
      timestamp == _extract_timestamp(parsed_record, "")
  IN  IF parsed_record["errors"] # 0 THEN Returns(NoReading)
      ELSE IF reading_type \notin {0, 1, 2} THEN Returns(NoReading)
      ELSE IF comments.raised # "none" THEN comments
      ELSE IF timestamp.raised # "none" THEN timestamp
      ELSE Returns(LibreReading(
             IF reading_type = 1 THEN "KetoneReading" ELSE "GlucoseReading",
             timestamp.value,
             IF reading_type = 1
               THEN convert_ketone_unit(parsed_record["value"])
               ELSE <<parsed_record["value"], 1>>,
             <<Part(CASE reading_type = 2 -> "(Scan)"
                      [] reading_type = 0 -> "(Blood)"
                      [] reading_type = 1 -> "(Ketone)", <<>>)>>
               \o comments.value \o FlagComments(parsed_record),
             IF reading_type = 2 THEN "CGM" ELSE "BLOOD_SAMPLE",
             parsed_record["device_id"]))

\* _parse_arresult (freestyle_libre.py, lines 102-198).
_parse_arresult(record) ==
  LET base == _parse_record(record, _BASE_ENTRY_MAP)
      type2 == _parse_record(record, _ARRESULT_TYPE2_ENTRY_MAP)
      adjustment == _parse_record(record, _ARRESULT_TIME_ADJUSTMENT_ENTRY_MAP)
      rapid == _parse_record(record, _ARRESULT_RAPID_INSULIN_ENTRY_MAP)
      adjusted == Update(base.value, adjustment.value)
      new == _extract_timestamp(adjusted, "")
      old == _extract_timestamp(adjusted, "old_")
      parsed_record == Update(base.value, type2.value)
  IN  IF base.raised # "none" THEN base
      ELSE IF DOMAIN base.value = {} THEN Returns(NoReading)
      ELSE IF base.value["type"] = 5 THEN
        IF adjustment.raised # "none" THEN adjustment
        ELSE IF new.raised # "none" THEN new
        ELSE IF old.raised # "none" THEN old
        ELSE Returns(LibreReading("TimeAdjustment", new.value, old.value,
                                  <<>>, "TIME", base.value["device_id"]))
      ELSE IF base.value["type"] # 2 THEN Returns(NoReading)
      ELSE IF type2.raised # "none" THEN type2
      ELSE IF "rapid-acting-flag" \notin DOMAIN parsed_record
        THEN Raises("KeyError")
      ELSE IF parsed_record["rapid-acting-flag"] = 0
        THEN ParseType2(record, parsed_record)
      ELSE IF rapid.raised # "none" THEN rapid
      ELSE ParseType2(record, Update(parsed_record, rapid.value))

\* The loop over $history? (freestyle_libre.py, lines 233-246) from the
\* k-th row on.
RECURSIVE ReadHistory(_, _, _)
ReadHistory(rows, k, readings) ==
  IF k > Len(rows) THEN Yielded(readings, "none")
  ELSE
    LET parsed_record == _parse_record(rows[k], _HISTORY_ENTRY_MAP)
        timestamp == _extract_timestamp(parsed_record.value, "")
    IN  IF parsed_record.raised # "none"
          THEN Yielded(readings, parsed_record.raised)
        ELSE IF DOMAIN parsed_record.value = {}
          THEN ReadHistory(rows, k + 1, readings)
        ELSE IF parsed_record.value["errors"] # 0
          THEN ReadHistory(rows, k + 1, readings)
        ELSE IF timestamp.raised # "none"
          THEN Yielded(readings, timestamp.raised)
        ELSE ReadHistory(rows, k + 1,
               Append(readings,
                 LibreReading("GlucoseReading", timestamp.value,
                   <<parsed_record.value["value"], 1>>,
                   <<Part("(Sensor)", <<>>)>>, "CGM",
                   parsed_record.value["device_id"])))

\* The loop over $arresult? (freestyle_libre.py, lines 250-254) from the
\* k-th row on.
RECURSIVE ReadArresult(_, _, _)
ReadArresult(rows, k, readings) ==
  IF k > Len(rows) THEN Yielded(readings, "none")
  ELSE
    LET reading == _parse_arresult(rows[k])
    IN  IF reading.raised # "none" THEN Yielded(readings, reading.raised)
        ELSE IF reading.value = NoReading
          THEN ReadArresult(rows, k + 1, readings)
        ELSE ReadArresult(rows, k + 1, Append(readings, reading.value))

\* LibreDevice.get_readings (freestyle_libre.py, lines 230-254), consumed
\* to its end, on what the two calls of query_multirecord come to.
Libre_get_readings(history, arresult) ==
  LET sensor == ReadHistory(history.value, 1, <<>>)
  IN  IF history.raised # "none" THEN Yielded(<<>>, history.raised)
      ELSE IF sensor.raised # "none" THEN sensor
      ELSE IF arresult.raised # "none"
        THEN Yielded(sensor.value, arresult.raised)
      ELSE ReadArresult(arresult.value, 1, sensor.value)

\* The decimal digits of n.
RECURSIVE Decimal(_)
Decimal(n) ==
  IF n < 10 THEN <<48 + n>> ELSE Decimal(n \div 10) \o <<48 + (n % 10)>>

\* The fields of the longest record the meter sends.
MaxFields == 44

\* A record of the meter: the device id, the type, 3 August 2013
\* 22:12:00, and zeros.
BaseRecord(type) ==
  [k \in 1..MaxFields |->
     CASE k = 1 -> Decimal(1)
       [] k = 2 -> Decimal(type)
       [] k = 3 -> Decimal(8)
       [] k = 4 -> Decimal(3)
       [] k = 5 -> Decimal(13)
       [] k = 6 -> Decimal(22)
       [] k = 7 -> Decimal(12)
       [] OTHER -> Decimal(0)]

\* A record of $arresult? of type 2: a reading of 105 with its flags, a
\* long-acting dose of 1.5, 30 g of carbs, the comments a to f and a
\* rapid-acting dose of 2.5.
Type2Record(reading_type, errors, rapid, long, food, bitfield) ==
  [k \in 1..MaxFields |->
     CASE k = 10 -> Decimal(reading_type)
       [] k = 13 -> Decimal(105)
       [] k = 18 -> Decimal(rapid)
       [] k = 19 -> Decimal(long)
       [] k = 20 -> Decimal(bitfield)
       [] k = 24 -> Decimal(3)
       [] k = 26 -> Decimal(food)
       [] k = 27 -> Decimal(30)
       [] k = 29 -> Decimal(errors)
       [] k \in 30..35 -> <<67 + k>>
       [] k = 44 -> Decimal(5)
       [] OTHER -> BaseRecord(2)[k]]

\* A record of $arresult? of type 5: the time adjusted from 22:05:30 of
\* the 31st of old_month 2013.
AdjustmentRecord(old_month) ==
  [k \in 1..MaxFields |->
     CASE k = 10 -> Decimal(old_month)
       [] k = 11 -> Decimal(31)
       [] k = 12 -> Decimal(13)
       [] k = 13 -> Decimal(22)
       [] k = 14 -> Decimal(5)
       [] k = 15 -> Decimal(30)
       [] OTHER -> BaseRecord(5)[k]]

\* A record of $history?: a value of 98 and its errors.
HistoryRecord(errors) ==
  [k \in 1..MaxFields |->
     CASE k = 14 -> Decimal(98)
       [] k = 16 -> Decimal(errors)
       [] OTHER -> BaseRecord(6)[k]]

\* The record with the field of index idx replaced (as it is for idx -1).
Spoiled(record, idx, field) ==
  IF idx + 1 \in 1..Len(record) THEN [record EXCEPT ![idx + 1] = field]
  ELSE record

\* The records given to _parse_arresult whole.
ArresultRecords ==
  {Type2Record(reading_type, errors, rapid, long, food, bitfield) :
     reading_type \in 0..3, errors \in {0, 1}, rapid \in {0, 1},
     long \in {0, 1}, food \in {0, 1}, bitfield \in {0, 1, 33}}
  \cup {AdjustmentRecord(7), AdjustmentRecord(6), BaseRecord(0),
        BaseRecord(7)}

\* How many fields of a record the meter sends.
RecordLengths == {0, 1, 7, 8, 12, 15, 26, 29, 30, 35, 43, MaxFields}

\* The fields that are replaced, by index, and -1 for none.
SpoiledFields == {-1, 1, 2, 9, 12, 23, 26, 28, 29, 43}

\* What a field is replaced with: a letter, nothing, the number 13.
SpoiledWith == {<<120>>, <<>>, <<49, 51>>}

\* The records the meter sends for $arresult?.
ArresultInputs ==
  {Take(Spoiled(record, idx, field), length) :
     record \in ArresultRecords, idx \in SpoiledFields,
     field \in SpoiledWith, length \in RecordLengths}

\* The most rows of a reply.
MaxRows == 2

\* The rows of $history?: sound, with errors, short, with a value that is
\* no number, with a thirteenth month.
HistoryRows ==
  {HistoryRecord(0), HistoryRecord(1), Take(HistoryRecord(0), 15),
   Spoiled(HistoryRecord(0), 13, <<120>>),
   Spoiled(HistoryRecord(0), 2, <<49, 51>>)}

\* The rows of $arresult?: a blood reading, a time adjustment, two short
\* records, one with a flag that is no number.
ArresultRows ==
  {Type2Record(0, 0, 0, 0, 0, 0), AdjustmentRecord(7),
   Take(Type2Record(0, 0, 0, 0, 0, 0), 7),
   Take(Type2Record(0, 0, 0, 0, 0, 0), 20),
   Spoiled(Type2Record(0, 0, 0, 0, 0, 0), 18, <<120>>)}

\* The sequences of up to n rows.
RECURSIVE RowsOf(_, _)
RowsOf(rows, n) ==
  IF n = 0 THEN {<<>>}
  ELSE RowsOf(rows, n - 1)
       \cup {Append(some, row) : some \in RowsOf(rows, n - 1), row \in rows}

\* What query_multirecord comes to (freestyle.py, lines 283-286): the
\* rows of the records and, for the line end after the last of them, a row
\* without fields; or InvalidChecksum.
QueryResults(rows) ==
  {Returns(some \o <<<<>>>>) : some \in RowsOf(rows, MaxRows)}
  \cup {Returns(<<>>), Raises("InvalidChecksum")}

\* No call was made yet on a driver that reads records.  The calls keep
\* nothing from one to the next, so a behaviour makes one call.
NoRecordsYet ==
  /\ ot_line = <<>> /\ ot_data = <<>>
  /\ lb_record = <<>> /\ lb_history = NoResult /\ lb_arresult = NoResult

\* _parse_arresult (freestyle_libre.py, lines 102-198) on a record.
Libre_parse_arresult ==
  /\ NoRecordsYet
  /\ \E record \in ArresultInputs :
       /\ lb_record' = record
       /\ lb_parsed' = _parse_arresult(record)
  /\ UNCHANGED <<lb_history, lb_arresult, lb_readings>>
  /\ UNCHANGED <<ueVars, lisVars, tlvVars, cuVars, fsVars, mrVars, sdVars, otVars, verioVars, crcVars, convVars, ktVars, guVars, tsVars, ckVars, ssVars, lgVars>>

\* LibreDevice.get_readings (freestyle_libre.py, lines 230-254).
Libre_get_readings_call ==
  /\ NoRecordsYet
  /\ \E history \in QueryResults(HistoryRows),
        arresult \in QueryResults(ArresultRows) :
       /\ lb_history' = history
       /\ lb_arresult' = arresult
       /\ lb_readings' = Libre_get_readings(history, arresult)
  /\ UNCHANGED <<lb_record, lb_parsed>>
  /\ UNCHANGED <<ueVars, lisVars, tlvVars, cuVars, fsVars, mrVars, sdVars, otVars, verioVars, crcVars, convVars, ktVars, guVars, tsVars, ckVars, ssVars, lgVars>>

\* Device.get_readings (otultra2.py, lines 282-324).
OT_get_readings_call ==
  /\ NoRecordsYet
  /\ \E data \in OT_Data :
       /\ ot_data' = data
       /\ ot_readings' = OT_get_readings(data)
  /\ UNCHANGED <<ot_line, ot_stripped>>
  /\ UNCHANGED <<ueVars, lisVars, tlvVars, cuVars, fsVars, mrVars, sdVars, libreVars, verioVars, crcVars, convVars, ktVars, guVars, tsVars, ckVars, ssVars, lgVars>>

LibreInit ==
  /\ lb_record = <<>>
  /\ lb_parsed = NoResult
  /\ lb_history = NoResult
  /\ lb_arresult = NoResult
  /\ lb_readings = NoResult

ReadingsNext ==
  \/ Libre_parse_arresult
  \/ Libre_get_readings_call
  \/ OT_get_readings_call

(***************************************************************************)
(* drivers/otverio2015.py: the 512-byte register framing                   *)
(***************************************************************************)
_REGISTER_SIZE == 512

\* The size of struct '<BH', the preamble and the mirrored coda.
_STRUCT_PREAMBLE_size == 3

\* struct '<H': pack and unpack of an unsigned 16-bit little-endian value.
PackUint16(value) == <<value % 256, (value \div 256) % 256>>
UnpackUint16(low, high) == low + 256 * high

\* data[start:stop] of Python: a negative index counts from the end, and
\* both ends are clamped to the sequence.
PyIndex(data, idx) ==
  IF idx < 0 THEN (IF idx + Len(data) < 0 THEN 0 ELSE idx + Len(data))
  ELSE Min(idx, Len(data))
PySlice(data, start, stop) ==
  IF PyIndex(data, stop) <= PyIndex(data, start) THEN <<>>
  ELSE [i \in 1..(PyIndex(data, stop) - PyIndex(data, start)) |->
          data[PyIndex(data, start) + i]]

\* lifescan.crc_ccitt over data[from..to], folding the left half before the
\* right one: the same loop, evaluated without a deep recursion.
RECURSIVE crc_between(_, _, _, _)
crc_between(crc, data, from, to) ==
  IF from > to THEN crc
  ELSE IF from = to THEN crc_step(crc, data[from])
  ELSE LET left == crc_between(crc, data, from, (from + to) \div 2)
       IN  IF left >= 0
           THEN crc_between(left, data, ((from + to) \div 2) + 1, to)
           ELSE left

crc_ccitt_of(data) == crc_between(65535, data, 1, Len(data)) % 65536

_encode_message(cmd) ==
  LET length   == Len(cmd) + _STRUCT_PREAMBLE_size + _STRUCT_PREAMBLE_size
      preamble == <<STX>> \o PackUint16(length)
      framed   == preamble \o cmd \o <<ETX>>
      whole    == framed \o PackUint16(crc_ccitt_of(framed))
  IN  IF _REGISTER_SIZE - Len(whole) < 0 THEN Raises("ValueError")
      ELSE Returns(whole \o Repeat(0, _REGISTER_SIZE - Len(whole)))

\* A parser that takes the length field without the bounds of the register
\* into account and leaves the end byte in the response.
_extract_message_KeepsEnd(register) ==
  IF register[1] # STX THEN Raises("MalformedCommand")
  ELSE Returns(PySlice(register, _STRUCT_PREAMBLE_size,
                       UnpackUint16(register[2], register[3]) - 2))

_extract_message(register) ==
  LET stx         == register[1]
      length      == UnpackUint16(register[2], register[3])
      coda_offset == length - _STRUCT_PREAMBLE_size
      coda        == PySlice(register, coda_offset, Len(register))
  IN  IF stx # STX THEN Raises("MalformedCommand")
      ELSE IF length > _REGISTER_SIZE THEN Raises("MalformedCommand")
      ELSE IF Len(coda) < _STRUCT_PREAMBLE_size THEN Raises("struct.error")
      ELSE IF coda[1] # ETX THEN Raises("MalformedCommand")
      ELSE IF UnpackUint16(coda[2], coda[3])
                # crc_ccitt_of(PySlice(register, 0, length - 2))
           THEN Raises("InvalidChecksum")
      ELSE Returns(PySlice(register, _STRUCT_PREAMBLE_size, coda_offset))

\* The commands the framing is applied to: every sequence of up to MaxCommand
\* bytes over a few byte values, and bodies at and past the largest size a
\* register holds.
MaxCommand == 3

VO_Bytes == {0, 3, 65, 255}

VO_ShortCommands == UNION {[1..n -> VO_Bytes] : n \in 0..MaxCommand}

VO_LongCommands ==
  {Repeat(byte, n) : byte \in {0, 65}, n \in {505, 506, 507}}

VO_Commands == VO_ShortCommands \cup VO_LongCommands

\* A register whose length field is zero, its last three bytes an end byte
\* and the checksum of the 510 bytes before them.
ZeroLength(body) ==
  <<STX, 0, 0>> \o body \o <<ETX>>
  \o PackUint16(crc_ccitt_of(<<STX, 0, 0>> \o body \o <<ETX>>))

\* The registers read back: the ones _encode_message writes, the same with
\* one byte replaced (among the first twelve, which hold the whole message
\* and at least two bytes after it, or the last byte of the register), and
\* the zero-length ones.
VO_Registers ==
  {_encode_message(cmd).value : cmd \in VO_ShortCommands}
  \cup {Replaced(_encode_message(cmd).value, idx, byte) :
          cmd \in VO_ShortCommands, idx \in 1..12, byte \in {0, 1, 2, 3, 5}}
  \cup {Replaced(_encode_message(cmd).value, _REGISTER_SIZE, byte) :
          cmd \in VO_ShortCommands, byte \in {1, 3}}
  \cup {_encode_message(Repeat(65, 506)).value}
  \cup {ZeroLength(Repeat(byte, 506)) : byte \in {0, 65}}
  \cup {Replaced(ZeroLength(Repeat(0, 506)), 3, 2)}

NoFramingYet == vo_call = "none"

\* _send_message with the register read back being the one written: the
\* command is framed, and the frame is parsed.
Verio_encode_extract ==
  /\ NoFramingYet
  /\ \E cmd \in VO_Commands :
       \E written \in {_encode_message(cmd)} :
         /\ vo_call' = "encode_extract"
         /\ vo_cmd' = cmd
         /\ vo_register' = written
         /\ vo_response' = IF written.raised = "none"
                           THEN _extract_message(written.value)
                           ELSE NoResult
         /\ vo_rebuilt' = NoResult
  /\ UNCHANGED <<ueVars, lisVars, tlvVars, cuVars, fsVars, mrVars, sdVars,
                 otVars, libreVars, crcVars, convVars, ktVars, guVars, tsVars, ckVars, ssVars, lgVars>>

\* A register read from the meter is parsed, and what it held is framed
\* again.
Verio_extract_encode ==
  /\ NoFramingYet
  /\ \E register \in VO_Registers :
       \E response \in {_extract_message(register)} :
         /\ vo_register' = Returns(register)
         /\ vo_response' = response
         /\ vo_rebuilt' = IF response.raised = "none"
                          THEN _encode_message(response.value)
                          ELSE NoResult
         /\ vo_call' = "extract_encode"
         /\ vo_cmd' = <<>>
  /\ UNCHANGED <<ueVars, lisVars, tlvVars, cuVars, fsVars, mrVars, sdVars,
                 otVars, libreVars, crcVars, convVars, ktVars, guVars, tsVars, ckVars, ssVars, lgVars>>

VerioInit ==
  /\ vo_call = "none"
  /\ vo_cmd = <<>>
  /\ vo_register = NoResult
  /\ vo_response = NoResult
  /\ vo_rebuilt = NoResult

VerioNext ==
  \/ Verio_encode_extract
  \/ Verio_extract_encode

(***************************************************************************)
(* support/lifescan.py: crc_ccitt applied to bytes and to arrays           *)
(***************************************************************************)
\* bytes(values) and array.array('B', values): both hold unsigned bytes.
BytesObject(values) == [type |-> "bytes", items |-> values]
ArrayObject(values) == [type |-> "array", typecode |-> "B", items |-> values]

\* `for byte in data`: the integers a bytes object or a 'B' array yields.
Iterate(data) == [i \in 1..Len(data.items) |-> data.items[i] % 256]

\* The byte strings crc_ccitt is applied to: every string of up to MaxCrcLen
\* bytes over a few byte values.
MaxCrcLen == 3

CC_Bytes == {0, 2, 3, 6, 8, 255}

CC_Inputs ==
  UNION {[1..n -> CC_Bytes] : n \in 0..MaxCrcLen}
  \cup {<<2, 6, 6, 3>>, <<2, 6, 8, 3>>}

\* crc_ccitt(bytes(values)) and crc_ccitt(array('B', values)).
CC_crc_ccitt ==
  /\ cc_data = <<-1>>
  /\ \E values \in CC_Inputs :
       /\ cc_data' = values
       /\ cc_bytes' = crc_ccitt(Iterate(BytesObject(values)))
       /\ cc_array' = crc_ccitt(Iterate(ArrayObject(values)))
  /\ UNCHANGED <<ueVars, lisVars, tlvVars, cuVars, fsVars, mrVars, sdVars,
                 otVars, libreVars, verioVars, convVars, ktVars, guVars, tsVars, ckVars, ssVars, lgVars>>

CrcInit ==
  /\ cc_data = <<-1>>
  /\ cc_bytes = -1
  /\ cc_array = -1

CrcNext ==
  \/ CC_crc_ccitt

(***************************************************************************)
(* drivers/td42xx.py: _parse_datetime                                      *)
(***************************************************************************)
\* construct.Int16ul.parse and construct.Int16ub.build.
Int16ul(data) == data[1] + 256 * data[2]
Int16ub_build(value) == <<(value \div 256) % 256, value % 256>>

\* The bits of a byte string as a BitStruct reads them: each byte from its
\* most significant bit on.
BitsOf(data) ==
  [i \in 1..(8 * Len(data)) |->
     (data[((i - 1) \div 8) + 1] \div (2 ^ (7 - ((i - 1) % 8)))) % 2]

\* construct.BitsInteger(n) read at bit `from`: the first bit is the most
\* significant.
RECURSIVE BitsInteger(_, _, _)
BitsInteger(bits, from, n) ==
  IF n = 0 THEN 0
  ELSE 2 * BitsInteger(bits, from, n - 1) + bits[from + n - 1]

\* The day word read as day, month, year from the most significant bit.
_DAY_BITSTRUCT_parse_Mirrored(data) ==
  [day   |-> BitsInteger(BitsOf(data), 1, 5),
   month |-> BitsInteger(BitsOf(data), 6, 4),
   year  |-> BitsInteger(BitsOf(data), 10, 7)]

\* _DAY_BITSTRUCT.parse: year in 7 bits, month in 4, day in 5.
_DAY_BITSTRUCT_parse(data) ==
  [year  |-> BitsInteger(BitsOf(data), 1, 7),
   month |-> BitsInteger(BitsOf(data), 8, 4),
   day   |-> BitsInteger(BitsOf(data), 12, 5)]

\* _DATETIME_STRUCT.parse: StreamError for fewer than four bytes, what
\* follows the fourth is not looked at.
_DATETIME_STRUCT_parse(message) ==
  IF Len(message) < 4 THEN Raises("StreamError")
  ELSE Returns([day    |-> Int16ul(SubSeq(message, 1, 2)),
                minute |-> message[3],
                hour   |-> message[4]])

TD_DayOf(date) == _DAY_BITSTRUCT_parse(Int16ub_build(date.day))

_parse_datetime_td(message) ==
  IF _DATETIME_STRUCT_parse(message).raised # "none"
    THEN _DATETIME_STRUCT_parse(message)
  ELSE datetime(2000 + TD_DayOf(_DATETIME_STRUCT_parse(message).value).year,
                TD_DayOf(_DATETIME_STRUCT_parse(message).value).month,
                TD_DayOf(_DATETIME_STRUCT_parse(message).value).day,
                _DATETIME_STRUCT_parse(message).value.hour,
                _DATETIME_STRUCT_parse(message).value.minute,
                0)

\* The messages: day words over a few low and high bytes, minutes and hours
\* at and past their ends, and messages shorter and longer than four bytes.
TD_LowBytes == {0, 1, 4, 33, 63, 253, 255}
TD_HighBytes == {0, 2, 36, 38, 39, 200, 255}
TD_Minutes == {0, 14, 37, 59, 60}
TD_Hours == {0, 13, 21, 23, 24}

TD_Messages ==
  {<<low, high, minute, hour>> : low \in TD_LowBytes, high \in TD_HighBytes,
                                 minute \in TD_Minutes, hour \in TD_Hours}
  \cup {<<>>, <<33, 36, 14>>, <<33, 36, 14, 21, 99>>}

NoConversionYet == cv_call = "none"

TD_parse_datetime ==
  /\ NoConversionYet
  /\ \E msg \in TD_Messages :
       /\ cv_call' = "_parse_datetime"
       /\ td_message' = msg
       /\ td_datetime' = _parse_datetime_td(msg)
  /\ UNCHANGED <<ueVars, lisVars, tlvVars, cuVars, fsVars, mrVars, sdVars,
                 otVars, libreVars, verioVars, crcVars, ktVars, guVars, tsVars, ckVars, ssVars, lgVars>>

(***************************************************************************)
(* drivers/fslibre.py and support/freestyle.py: the ketone value           *)
(***************************************************************************)
\* int(x) for x = a / b with b > 0: the fraction cut towards zero.
IntOf(a, b) == IF a >= 0 THEN a \div b ELSE -((-a) \div b)

\* The fraction (raw_value + 1) / 2 / 10, nothing cut.
_convert_ketone_unit_Exact(raw_value) == <<raw_value + 1, 20>>

\* fslibre._convert_ketone_unit: int((raw_value + 1) / 2.) / 10., as a
\* fraction.
_convert_ketone_unit(raw_value) == <<IntOf(raw_value + 1, 2), 10>>

\* The raw values: int(field) of a record, from a little under zero on.
MaxRaw == 60

KT_RawValues == (-4)..MaxRaw

\* The value of a ketone reading in drivers/fslibre.py.
FSL_convert_ketone_unit ==
  /\ NoConversionYet
  /\ \E raw_value \in KT_RawValues :
       /\ cv_call' = "fslibre._convert_ketone_unit"
       /\ kt_raw' = raw_value
       /\ kt_value' = _convert_ketone_unit(raw_value)
  /\ UNCHANGED <<td_message, td_datetime>>
  /\ UNCHANGED <<ueVars, lisVars, tlvVars, cuVars, fsVars, mrVars, sdVars,
                 otVars, libreVars, verioVars, crcVars, guVars, tsVars, ckVars, ssVars, lgVars>>

\* The value of a ketone reading in support/freestyle_libre.py and
\* drivers/fsprecisionneo.py.
FS_convert_ketone_unit ==
  /\ NoConversionYet
  /\ \E raw_value \in KT_RawValues :
       /\ cv_call' = "freestyle.convert_ketone_unit"
       /\ kt_raw' = raw_value
       /\ kt_value' = convert_ketone_unit(raw_value)
  /\ UNCHANGED <<td_message, td_datetime>>
  /\ UNCHANGED <<ueVars, lisVars, tlvVars, cuVars, fsVars, mrVars, sdVars,
                 otVars, libreVars, verioVars, crcVars, guVars, tsVars, ckVars, ssVars, lgVars>>

KetoneInit ==
  /\ kt_raw = 0
  /\ kt_value = <<0, 1>>

(***************************************************************************)
(* common.py: convert_glucose_unit, on values counted in hundredths        *)
(***************************************************************************)
\* A str object: its characters, and whether it is the object the constant
\* of common.py names or another string with, maybe, the same characters.
StrObject(chars, constant) == [value |-> chars, constant |-> constant]

NoUnit == StrObject(None, TRUE)

\* What `from_unit is UNIT_MGDL` may come to: an identity, which for a string
\* that is not the constant itself but has its characters depends on what
\* the interpreter shares.
IsUnitMgdl(from_unit) ==
  IF from_unit.constant THEN {from_unit.value = UNIT_MGDL}
  ELSE IF from_unit.value = UNIT_MGDL THEN BOOLEAN
  ELSE {FALSE}

\* round(value / 18.0, 2), in hundredths: the nearest hundredth, and either
\* neighbour where the quotient lies half way, the float quotient falling on
\* one side or the other.
RoundedEighteenth(hundredths) ==
  IF hundredths % 18 = 9
    THEN {hundredths \div 18, (hundredths \div 18) + 1}
    ELSE {(hundredths + 9) \div 18}

\* round(value * 18.0, 0), in hundredths: the nearest integer, the even one
\* where the product lies half way.
RoundedTimes18(hundredths) ==
  LET product == 18 * hundredths
      whole   == product \div 100
  IN  100 * (IF product % 100 < 50 THEN whole
             ELSE IF product % 100 > 50 THEN whole + 1
             ELSE IF whole % 2 = 0 THEN whole ELSE whole + 1)

\* The outcomes of convert_glucose_unit(value, from_unit, to_unit).
convert_glucose_unit(value, from_unit, to_unit) ==
  IF from_unit.value \notin VALID_UNITS THEN {Raises("InvalidGlucoseUnit")}
  ELSE IF from_unit.value = to_unit.value THEN {[raised |-> "none", value |-> value]}
  ELSE IF to_unit # NoUnit /\ to_unit.value \notin VALID_UNITS
    THEN {Raises("InvalidGlucoseUnit")}
  ELSE UNION {IF is_mgdl
                THEN {[raised |-> "none", value |-> r] :
                        r \in RoundedEighteenth(value)}
                ELSE {[raised |-> "none", value |-> RoundedTimes18(value)]} :
              is_mgdl \in IsUnitMgdl(from_unit)}

\* The values, in hundredths: whole numbers of mg/dL, and hundredths of
\* mmol/L, up to MaxGlucose, and a few larger ones.
MaxGlucose == 40

GU_Values ==
  {100 * v : v \in 0..MaxGlucose} \cup (0..MaxGlucose)
  \cup {552, 556, 1000, 3330, 10000, 10052, 18000, 60000}

GU_Units ==
  {StrObject(chars, constant) : chars \in VALID_UNITS, constant \in BOOLEAN}

\* A value converted from A to B and back.
GU_round_trip ==
  /\ NoConversionYet
  /\ \E v \in GU_Values, a \in GU_Units, b \in GU_Units :
       \E first \in convert_glucose_unit(v, a, b) :
         \E second \in convert_glucose_unit(first.value, b, a) :
           /\ cv_call' = "convert_glucose_unit round trip"
           /\ gu_value' = v
           /\ gu_from' = a
           /\ gu_to' = b
           /\ gu_first' = first
           /\ gu_second' = second
  /\ UNCHANGED <<td_message, td_datetime>>
  /\ UNCHANGED <<ueVars, lisVars, tlvVars, cuVars, fsVars, mrVars, sdVars,
                 otVars, libreVars, verioVars, crcVars, ktVars, tsVars, ckVars, ssVars, lgVars>>

\* One conversion, the units being anything a caller may pass.
GU_convert ==
  /\ NoConversionYet
  /\ \E v \in {100, 556, 10000},
        a \in GU_Units \cup {StrObject(<<102, 111, 111>>, FALSE), NoUnit},
        b \in GU_Units \cup {StrObject(<<102, 111, 111>>, FALSE), NoUnit} :
       \E first \in convert_glucose_unit(v, a, b) :
         /\ cv_call' = "convert_glucose_unit"
         /\ gu_value' = v
         /\ gu_from' = a
         /\ gu_to' = b
         /\ gu_first' = first
         /\ gu_second' = NoResult
  /\ UNCHANGED <<td_message, td_datetime>>
  /\ UNCHANGED <<ueVars, lisVars, tlvVars, cuVars, fsVars, mrVars, sdVars,
                 otVars, libreVars, verioVars, crcVars, ktVars, tsVars, ckVars, ssVars, lgVars>>

GlucoseUnitInit ==
  /\ gu_value = 0
  /\ gu_from = NoUnit
  /\ gu_to = NoUnit
  /\ gu_first = NoResult
  /\ gu_second = NoResult

(***************************************************************************)
(* drivers/otverio2015.py and support/lifescan_binary_protocol.py: the     *)
(* timestamps of the Verio meters                                          *)
(***************************************************************************)
_EPOCH_BASE == 946684800

\* The date of the day `days` days after 1970-01-01, in the proleptic
\* Gregorian calendar, as <<year, month, day>>.
DateOfDay(days) ==
  LET z   == days + 719468
      era == z \div 146097
      doe == z % 146097
      yoe == (doe - (doe \div 1460) + (doe \div 36524) - (doe \div 146096))
               \div 365
      doy == doe - (365 * yoe + (yoe \div 4) - (yoe \div 100))
      mp  == (5 * doy + 2) \div 153
      d   == doy - ((153 * mp + 2) \div 5) + 1
      m   == IF mp < 10 THEN mp + 3 ELSE mp - 9
  IN  <<yoe + era * 400 + (IF m <= 2 THEN 1 ELSE 0), m, d>>

\* datetime.datetime.utcfromtimestamp(seconds), seconds not negative.
utcfromtimestamp(seconds) ==
  DateOfDay(seconds \div 86400)
  \o <<(seconds % 86400) \div 3600, (seconds % 3600) \div 60, seconds % 60>>

\* otverio2015._convert_timestamp.
VO_convert_timestamp(timestamp) == utcfromtimestamp(timestamp + _EPOCH_BASE)

\* construct_extras.Timestamp._decode for VERIO_TIMESTAMP, epoch=946684800.
VERIO_TIMESTAMP_decode(obj) == utcfromtimestamp(obj + 946684800)

\* The raw values: the first and last seconds of the first MaxDay days, of
\* the days around ten years on, and of a day in 2038, the last that
\* 32-bit signed arithmetic reaches when counted from 1970.
MaxDay == 60

TS_Days == (0..MaxDay) \cup {789, 3652, 3653, 3712, 5000, 13897}

TS_RawValues ==
  {86400 * d + s : d \in TS_Days, s \in {0, 1, 43199, 86399}}

VO_convert_timestamp_call ==
  /\ NoConversionYet
  /\ \E timestamp \in TS_RawValues :
       /\ cv_call' = "_convert_timestamp"
       /\ ts_raw' = timestamp
       /\ ts_datetime' = VO_convert_timestamp(timestamp)
  /\ UNCHANGED <<td_message, td_datetime>>
  /\ UNCHANGED <<ueVars, lisVars, tlvVars, cuVars, fsVars, mrVars, sdVars,
                 otVars, libreVars, verioVars, crcVars, ktVars, guVars, ckVars, ssVars, lgVars>>

VERIO_TIMESTAMP_parse ==
  /\ NoConversionYet
  /\ \E timestamp \in TS_RawValues :
       /\ cv_call' = "VERIO_TIMESTAMP"
       /\ ts_raw' = timestamp
       /\ ts_datetime' = VERIO_TIMESTAMP_decode(timestamp)
  /\ UNCHANGED <<td_message, td_datetime>>
  /\ UNCHANGED <<ueVars, lisVars, tlvVars, cuVars, fsVars, mrVars, sdVars,
                 otVars, libreVars, verioVars, crcVars, ktVars, guVars, ckVars, ssVars, lgVars>>

TimestampInit ==
  /\ ts_raw = 0
  /\ ts_datetime = <<>>

ConversionsInit ==
  /\ cv_call = "none"
  /\ td_message = <<>>
  /\ td_datetime = NoResult

ConversionsNext ==
  \/ TD_parse_datetime
  \/ FSL_convert_ketone_unit
  \/ FS_convert_ketone_unit
  \/ GU_round_trip
  \/ GU_convert
  \/ VO_convert_timestamp_call
  \/ VERIO_TIMESTAMP_parse

(***************************************************************************)
(* exceptions.py: InvalidChecksum, and the decoders that raise it          *)
(***************************************************************************)
\* InvalidChecksum(wire, calculated) (exceptions.py, lines 39-46): the first
\* argument is reported as the checksum on the wire, the second as the one
\* calculated.
InvalidChecksum(wire, calculated) ==
  [raised |-> "InvalidChecksum", wire |-> wire, calculated |-> calculated]

\* Any other outcome of a decoder: returning, or another exception.
Outcome(raised) == [raised |-> raised, wire |-> -1, calculated |-> -1]

\* The length field of a register.
LengthOfRegister(register) == UnpackUint16(register[2], register[3])

\* _parse_lis1a_transfer_frame with what it raises (lis.py, line 89):
\* InvalidChecksum(calculated_checksum, checksum).
LIS_parse_outcome(previous, data) ==
  IF _parse_lis1a_transfer_frame(previous, data).raised = "InvalidChecksum"
    THEN InvalidChecksum(calculated_checksum(data),
                         IntBase16(SliceEnd(data, 4, 2)).value)
    ELSE Outcome(_parse_lis1a_transfer_frame(previous, data).raised)

\* _Packet.validate_checksum with what it raises (otultraeasy.py, line 177):
\* InvalidChecksum(expected_checksum, received_checksum).
UE_validate_outcome(cmd) ==
  IF validate_checksum_raises(cmd)
    THEN InvalidChecksum(PacketChecksum(cmd), ReceivedChecksum(cmd))
    ELSE Outcome("none")

\* _extract_message with what it raises (otverio2015.py, line 103):
\* InvalidChecksum(encoded_checksum, calculated_checksum).
VO_extract_outcome(register) ==
  IF _extract_message(register).raised = "InvalidChecksum"
    THEN InvalidChecksum(
           UnpackUint16(register[LengthOfRegister(register) - 1],
                        register[LengthOfRegister(register)]),
           crc_ccitt_of(PySlice(register, 0, LengthOfRegister(register) - 2)))
    ELSE Outcome(_extract_message(register).raised)

\* freestyle._verify_checksum with what it raises (freestyle.py, line 117):
\* InvalidChecksum(expected_checksum, calculated_checksum).
FS_verify_outcome(message, expected_checksum_hex) ==
  IF _verify_checksum_raises(message, expected_checksum_hex)
    THEN InvalidChecksum(HexValue(expected_checksum_hex), SumBytes(message))
    ELSE Outcome("none")

\* The frames: for each decoder the frames of a few texts with the checksum
\* their sender computes, and with the checksum bytes replaced.
CK_Texts == {<<>>, <<65>>, <<65, 66>>, <<83, 79, 77, 69, 84, 69, 88, 84>>}

\* The frame with the byte `back` places from its end replaced, whole for
\* `back` 0.
ReplacedBack(frame, back, byte) ==
  IF back = 0 THEN frame ELSE [frame EXCEPT ![Len(frame) + 1 - back] = byte]

CK_LisFrames ==
  {<<2, 49, 83, 79, 77, 69, 84, 69, 88, 84, 3, 48, 48, 13, 10>>}
  \cup
  {Replaced(ReplacedBack(MeterFrame(1, text, terminator), back, byte),
            2, number) :
     text \in CK_Texts, terminator \in {ASCII_ETX, ASCII_ETB},
     back \in {0, 3, 4}, byte \in {48, 65, 70}, number \in {49, 50}}

CK_Packets ==
  {ReplacedBack(update_checksum(build_command(text, control)), back, byte) :
     text \in CK_Texts, control \in {0, 3},
     back \in {0, 1, 2}, byte \in {0, 1, 255}}

CK_Registers ==
  UNION {{Replaced(_encode_message(text).value, at, byte) :
            at \in {0, 1, Len(text) + 5, Len(text) + 6},
            byte \in {0, 1, 255}} :
         text \in CK_Texts}

CK_Replies ==
  {<<text, Replaced(SliceEnd(Repeat(48, 8) \o HexDigits(SumBytes(text)), 8, 0),
                    at, byte)>> :
     text \in CK_Texts, at \in {0, 2, 7, 8}, byte \in {48, 49, 70}}

NoDecoderYet == ck_decoder = "none"

CK_parse_lis1a_transfer_frame ==
  /\ NoDecoderYet
  /\ \E data \in CK_LisFrames :
       /\ ck_decoder' = "lis1a"
       /\ ck_frame' = data
       /\ ck_error' = LIS_parse_outcome(0, data)
  /\ UNCHANGED <<ueVars, lisVars, tlvVars, cuVars, fsVars, mrVars, sdVars,
                 otVars, libreVars, verioVars, crcVars, convVars, ktVars,
                 guVars, tsVars, ssVars, lgVars>>

CK_validate_checksum ==
  /\ NoDecoderYet
  /\ \E cmd \in CK_Packets :
       /\ ck_decoder' = "ultraeasy"
       /\ ck_frame' = cmd
       /\ ck_error' = UE_validate_outcome(cmd)
  /\ UNCHANGED <<ueVars, lisVars, tlvVars, cuVars, fsVars, mrVars, sdVars,
                 otVars, libreVars, verioVars, crcVars, convVars, ktVars,
                 guVars, tsVars, ssVars, lgVars>>

CK_extract_message ==
  /\ NoDecoderYet
  /\ \E register \in CK_Registers :
       /\ ck_decoder' = "verio2015"
       /\ ck_frame' = register
       /\ ck_error' = VO_extract_outcome(register)
  /\ UNCHANGED <<ueVars, lisVars, tlvVars, cuVars, fsVars, mrVars, sdVars,
                 otVars, libreVars, verioVars, crcVars, convVars, ktVars,
                 guVars, tsVars, ssVars, lgVars>>

CK_verify_checksum ==
  /\ NoDecoderYet
  /\ \E reply \in CK_Replies :
       /\ ck_decoder' = "freestyle"
       /\ ck_frame' = reply
       /\ ck_error' = FS_verify_outcome(reply[1], reply[2])
  /\ UNCHANGED <<ueVars, lisVars, tlvVars, cuVars, fsVars, mrVars, sdVars,
                 otVars, libreVars, verioVars, crcVars, convVars, ktVars,
                 guVars, tsVars, ssVars, lgVars>>

ChecksumErrorsInit ==
  /\ ck_decoder = "none"
  /\ ck_frame = <<>>
  /\ ck_error = Outcome("none")

ChecksumErrorsNext ==
  \/ CK_parse_lis1a_transfer_frame
  \/ CK_validate_checksum
  \/ CK_extract_message
  \/ CK_verify_checksum

(***************************************************************************)
(* drivers/otultraeasy.py: a session of connect() and get_version() calls  *)
(***************************************************************************)
\* _READ_VERSION (line 50).
READ_VERSION == <<5, 13, 2>>

\* Device.get_version (lines 254-259), up to the decoding of the reply.
get_version(d) ==
  LET d1 == _send_command(d, READ_VERSION, FALSE, FALSE)
  IN  IF d1.raised # "none" THEN d1 ELSE _read_response(d1)

\* The frames the calls of _read_response of a finished operation returned,
\* in the order they were read.
Responses(log) ==
  LET reads == SelectSeq(log, LAMBDA e : e.fn = "_read_response" /\ e.raised = "none")
  IN  [i \in 1..Len(reads) |-> reads[i].response]

\* What connect() read in reply.
HandshakeOf(d) ==
  IF d.raised # "none" \/ Len(Responses(d.log)) # 1 THEN "none"
  ELSE IF TestBit(Responses(d.log)[1][3], BIT_ACK) THEN "ack" ELSE "data"

\* get_version went through a whole exchange: the request was written, an ACK
\* frame was read, a data frame was read and the ACK for it was written.
CompleteExchange(d) ==
  /\ d.raised = "none"
  /\ Len(Responses(d.log)) = 2
  /\ TestBit(Responses(d.log)[1][3], BIT_ACK)
  /\ ~TestBit(Responses(d.log)[2][3], BIT_ACK)
  /\ Len(d.serial_out) = 2
  /\ TestBit(d.serial_out[2][3], BIT_ACK)

\* The longest session followed.
MaxExchanges == 3

SessionInit ==
  /\ ue_k = -1
  /\ ue_handshake = "none"

\* connect() on the fresh Device.
Session_connect ==
  /\ ue_k = -1
  /\ ue_op = "__init__"
  /\ \E rx \in RxFrames :
       \E d \in {connect(Device(rx))} :
         /\ Becomes(d, "connect")
         /\ ue_k' = IF d.raised = "none" THEN 0 ELSE -2
         /\ ue_handshake' = HandshakeOf(d)
  /\ UNCHANGED <<lisVars, tlvVars, cuVars, fsVars, mrVars, sdVars, otVars, libreVars, verioVars, crcVars, convVars, ktVars, guVars, tsVars, ckVars, lgVars>>

\* get_version() on the connected Device.
Session_get_version ==
  /\ ue_k \in 0..(MaxExchanges - 1)
  /\ \E rx1 \in RxFirst, rx2 \in RxSecond :
       \E d \in {get_version(Device(rx1 \o rx2))} :
         /\ Becomes(d, "get_version")
         /\ ue_k' = IF CompleteExchange(d) THEN ue_k + 1 ELSE -2
         /\ UNCHANGED ue_handshake
  /\ UNCHANGED <<lisVars, tlvVars, cuVars, fsVars, mrVars, sdVars, otVars, libreVars, verioVars, crcVars, convVars, ktVars, guVars, tsVars, ckVars, lgVars>>

SessionNext ==
  \/ Session_connect
  \/ Session_get_version

(***************************************************************************)
(* support/freestyle_libre.py: get_readings as the generator it is, a step *)
(* for each next() of its consumer.                                        *)
(***************************************************************************)
HISTORY == "$history?"
ARRESULT == "$arresult?"

\* The body of the loop over $history? (lines 234-246) for one record: the
\* reading it yields, NoReading for a record it skips, or what it raises.
HistoryReading(record) ==
  LET parsed_record == _parse_record(record, _HISTORY_ENTRY_MAP)
      timestamp == _extract_timestamp(parsed_record.value, "")
  IN  IF parsed_record.raised # "none" THEN Raises(parsed_record.raised)
      ELSE IF DOMAIN parsed_record.value = {} THEN Returns(NoReading)
      ELSE IF parsed_record.value["errors"] # 0 THEN Returns(NoReading)
      ELSE IF timestamp.raised # "none" THEN Raises(timestamp.raised)
      ELSE Returns(LibreReading("GlucoseReading", timestamp.value,
                     <<parsed_record.value["value"], 1>>,
                     <<Part("(Sensor)", <<>>)>>, "CGM",
                     parsed_record.value["device_id"]))

\* What the loop body comes to for each row of a reply.
RECURSIVE Outcomes(_, _)
Outcomes(command, rows) ==
  IF rows = <<>> THEN <<>>
  ELSE <<IF command = HISTORY THEN HistoryReading(Head(rows))
         ELSE _parse_arresult(Head(rows))>>
       \o Outcomes(command, Tail(rows))

\* The row from `from` on at which the loop stops next, to yield or to
\* raise; one past the last row when it runs to its end.
NextStop(outcomes, from) ==
  LET stops == {j \in from..Len(outcomes) :
                  \/ outcomes[j].raised # "none"
                  \/ outcomes[j].value # NoReading}
  IN  IF stops = {} THEN Len(outcomes) + 1
      ELSE CHOOSE j \in stops : \A i \in stops : j <= i

\* The generator object: where it is suspended, the commands sent, the
\* replies, the row last taken, what it yielded and what ended it.
Generator ==
  [pc |-> lg_pc, sent |-> lg_sent, history |-> lg_history,
   arresult |-> lg_arresult, row |-> lg_row, yielded |-> lg_yielded,
   raised |-> lg_raised]

\* A value yielded: the reading, and the reply and row it was made of.
YieldedFrom(command, row, reading) ==
  [command |-> command, row |-> row, reading |-> reading]

\* The loop over the rows of `command` from the row `from` on, up to where
\* the generator stops next; `AtEnd` is how it goes on after the last row.
LoopFrom(g, command, rows, from, AtEnd) ==
  LET outcomes == Outcomes(command, rows)
      j == NextStop(outcomes, from)
  IN  IF j > Len(rows) THEN AtEnd
      ELSE IF outcomes[j].raised # "none"
        THEN [g EXCEPT !.pc = "raised", !.row = j,
                       !.raised = outcomes[j].raised]
      ELSE [g EXCEPT !.pc = command, !.row = j,
                     !.yielded = Append(@, YieldedFrom(command, j,
                                                      outcomes[j].value))]

\* Lines 250-254 from the row `from` on: the function returns after the
\* last row.
InArresult(g, from) ==
  LoopFrom(g, ARRESULT, g.arresult.value, from, [g EXCEPT !.pc = "done"])

\* Line 250: query_multirecord(b"$arresult?") is called, and the loop over
\* what it returns starts.
QueryArresult(g, arresult_reply) ==
  LET g1 == [g EXCEPT !.sent = Append(@, ARRESULT),
                      !.arresult = arresult_reply]
  IN  IF arresult_reply.raised # "none"
        THEN [g1 EXCEPT !.pc = "raised", !.raised = arresult_reply.raised]
      ELSE InArresult(g1, 1)

\* Lines 233-250 from the row `from` on: after the last row of $history?
\* the second query is made.
InHistory(g, from, arresult_reply) ==
  LoopFrom(g, HISTORY, g.history.value, from, QueryArresult(g, arresult_reply))

\* A generator that makes both queries when it is started.
QueryHistory_Both(g, history_reply, arresult_reply) ==
  LET g1 == [g EXCEPT !.sent = <<HISTORY, ARRESULT>>,
                      !.history = history_reply]
  IN  IF history_reply.raised # "none"
        THEN [g1 EXCEPT !.pc = "raised", !.raised = history_reply.raised]
      ELSE InHistory(g1, 1, arresult_reply)

\* Line 233, at the first next(): query_multirecord(b"$history?") is
\* called, and the loop over what it returns starts.
QueryHistory(g, history_reply, arresult_reply) ==
  LET g1 == [g EXCEPT !.sent = <<HISTORY>>, !.history = history_reply]
  IN  IF history_reply.raised # "none"
        THEN [g1 EXCEPT !.pc = "raised", !.raised = history_reply.raised]
      ELSE InHistory(g1, 1, arresult_reply)

\* next() on the generator: it runs from where it is suspended to its next
\* yield, its end or an exception.  The replies are what query_multirecord
\* comes to if it is called.
Resume(g, history_reply, arresult_reply) ==
  IF g.pc = "created" THEN QueryHistory(g, history_reply, arresult_reply)
  ELSE IF g.pc = HISTORY THEN InHistory(g, g.row + 1, arresult_reply)
  ELSE InArresult(g, g.row + 1)

\* This next() gets to the end of the rows of $history?.
EndsHistory(g, history_reply) ==
  /\ g.pc \in {"created", HISTORY}
  /\ history_reply.raised = "none"
  /\ NextStop(Outcomes(HISTORY, history_reply.value),
              IF g.pc = "created" THEN 1 ELSE g.row + 1)
       > Len(history_reply.value)

GeneratorInit ==
  /\ lg_pc = "none"
  /\ lg_sent = <<>>
  /\ lg_history = NoResult
  /\ lg_arresult = NoResult
  /\ lg_row = 0
  /\ lg_yielded = <<>>
  /\ lg_raised = "none"

\* get_readings() is called: the generator is made, none of its code runs.
LG_get_readings ==
  /\ lg_pc = "none"
  /\ lg_pc' = "created"
  /\ UNCHANGED <<lg_sent, lg_history, lg_arresult, lg_row, lg_yielded, lg_raised>>
  /\ UNCHANGED <<ueVars, lisVars, tlvVars, cuVars, fsVars, mrVars, sdVars, otVars, libreVars, verioVars, crcVars, convVars, ktVars, guVars, tsVars, ckVars, ssVars>>

\* The consumer calls next().
LG_next ==
  /\ lg_pc \in {"created", HISTORY, ARRESULT}
  /\ \E history_reply \in (IF lg_pc = "created" THEN QueryResults(HistoryRows)
                           ELSE {lg_history}) :
     \E arresult_reply \in (IF EndsHistory(Generator, history_reply)
                              THEN QueryResults(ArresultRows)
                            ELSE {lg_arresult}) :
     \E g \in {Resume(Generator, history_reply, arresult_reply)} :
       /\ lg_pc' = g.pc
       /\ lg_sent' = g.sent
       /\ lg_history' = g.history
       /\ lg_arresult' = g.arresult
       /\ lg_row' = g.row
       /\ lg_yielded' = g.yielded
       /\ lg_raised' = g.raised
  /\ UNCHANGED <<ueVars, lisVars, tlvVars, cuVars, fsVars, mrVars, sdVars, otVars, libreVars, verioVars, crcVars, convVars, ktVars, guVars, tsVars, ckVars, ssVars>>

GeneratorNext ==
  \/ LG_get_readings
  \/ LG_next

Init == UltraEasyInit /\ BayerInit /\ TlvInit /\ ContourInit /\ FsInit /\ MultirecordInit /\ SerialPacketsInit /\ Ultra2Init /\ LibreInit /\ VerioInit /\ CrcInit /\ ConversionsInit /\ KetoneInit /\ GlucoseUnitInit /\ TimestampInit /\ ChecksumErrorsInit /\ SessionInit /\ GeneratorInit

SpecUltraEasy == Init /\ [][UltraEasyNext]_vars

SpecBayer == Init /\ [][BayerNext]_vars

SpecBayerTlv == Init /\ [][BayerTlvNext]_vars

SpecContour == Init /\ [][ContourNext]_vars

SpecFreeStyle == Init /\ [][FreeStyleNext]_vars

SpecMultirecord == Init /\ [][MultirecordNext]_vars

SpecSerialPackets == Init /\ [][SerialPacketsNext]_vars
SpecUltra2 == Init /\ [][Ultra2Next]_vars
SpecReadings == Init /\ [][ReadingsNext]_vars

SpecVerio == Init /\ [][VerioNext]_vars

SpecCrc == Init /\ [][CrcNext]_vars

SpecConversions == Init /\ [][ConversionsNext]_vars

SpecChecksumErrors == Init /\ [][ChecksumErrorsNext]_vars

SpecUltraEasySession == Init /\ [][SessionNext]_vars

SpecLibreGenerator == Init /\ [][GeneratorNext]_vars

(***************************************************************************)
(* Properties of the Contour's transfer.                                   *)
(***************************************************************************)
\* The parts of a frame as the standard lays them out, read off the bytes.
FrameNumberIn(frame) == frame[2] - 48
TextIn(frame) == SubSeq(frame, 3, Len(frame) - 5)
TerminatorIn(frame) == frame[Len(frame) - 4]
SumIn(frame) == SumBytes(SubSeq(frame, 2, Len(frame) - 4)) % 256
ChecksumCharsIn(frame) == SubSeq(frame, Len(frame) - 3, Len(frame) - 2)
ChecksumCharsFor(sum) == <<HexChar(sum \div 16), HexChar(sum % 16)>>

\* The frame number that follows `previous`.
Follows(previous) == IF previous = 7 THEN 0 ELSE previous + 1

\* A frame that is long enough to have all its parts and starts with STX.
HasParts(frame) == Len(frame) >= 7 /\ frame[1] = ASCII_STX

\* A frame with nothing wrong except, perhaps, its number.
SoundButNumber(frame) ==
  /\ HasParts(frame)
  /\ frame[2] \in 48..55
  /\ TerminatorIn(frame) \in {ASCII_ETX, ASCII_ETB}
  /\ ChecksumCharsIn(frame) = ChecksumCharsFor(SumIn(frame))
  /\ SubSeq(frame, Len(frame) - 1, Len(frame)) = <<ASCII_CR, ASCII_LF>>

\* A frame with nothing wrong before its checksum, which is two
\* hexadecimal digits.
SoundButChecksum(previous, frame) ==
  /\ HasParts(frame)
  /\ frame[2] \in 48..55
  /\ FrameNumberIn(frame) = Follows(previous)
  /\ TerminatorIn(frame) \in {ASCII_ETX, ASCII_ETB}
  /\ \A i \in 1..2 : ChecksumCharsIn(frame)[i] \in (48..57) \cup (65..70)

\* The frame number of the last accepted frame; 0 before the first.
LastAccepted ==
  IF lis_accepted = <<>> THEN 0
  ELSE FrameNumberIn(lis_accepted[Len(lis_accepted)])

\* C6: a frame whose number is not (previous + 1) mod 8 is refused with
\* InvalidResponse though everything else in it, the checksum included, is
\* sound; and the numbers of the frames a transfer has accepted start at 1
\* and go up by exactly 1 modulo 8 from each frame to the next.
C6_FrameNumbersInSequence ==
  /\ (lis_call # <<>> /\ SoundButNumber(lis_call.data)
        /\ FrameNumberIn(lis_call.data) # Follows(lis_call.previous))
       => lis_call.result.raised = "InvalidResponse"
  /\ \A i \in 1..Len(lis_accepted) :
       FrameNumberIn(lis_accepted[i]) =
         Follows(IF i = 1 THEN 0 ELSE FrameNumberIn(lis_accepted[i - 1]))

\* A sound frame with the wrong number was refused.
C6_Witness ==
  /\ lis_call # <<>>
  /\ SoundButNumber(lis_call.data)
  /\ FrameNumberIn(lis_call.data) = Follows(Follows(lis_call.previous))
  /\ lis_call.result.raised = "InvalidResponse"

\* C7 (as the code has it): a frame that is sound up to its checksum, with
\* two hexadecimal digits there that do not spell the sum modulo 256 of the
\* bytes from the frame number through the terminator, raises
\* InvalidChecksum; in a transfer the exception ends connect() with no ACK
\* written for the frame and nothing read after it.
C7_ChecksumChecked ==
  /\ (lis_call # <<>> /\ SoundButChecksum(lis_call.previous, lis_call.data)
        /\ ChecksumCharsIn(lis_call.data) # ChecksumCharsFor(SumIn(lis_call.data)))
       => lis_call.result.raised = "InvalidChecksum"
  /\ (lis_io # <<>> /\ SoundButChecksum(LastAccepted, lis_io[1].data)
        /\ ChecksumCharsIn(lis_io[1].data) # ChecksumCharsFor(SumIn(lis_io[1].data)))
       => /\ lis_raised = "InvalidChecksum"
          /\ lis_pc = "failed"
          /\ lis_io = <<Read(lis_io[1].data)>>
  /\ lis_raised = "InvalidChecksum" => lis_pc = "failed" /\ Len(lis_io) = 1

\* A transfer that had accepted frames ended on a frame with a wrong
\* checksum.
C7_Witness ==
  /\ lis_raised = "InvalidChecksum"
  /\ lis_accepted # <<>>
  /\ Len(lis_io) = 1
  /\ SoundButChecksum(LastAccepted, lis_io[1].data)

\* C7 as stated: every frame whose checksum characters do not spell the
\* sum raises InvalidChecksum.
C7_AsStated ==
  (lis_call # <<>> /\ HasParts(lis_call.data)
     /\ ChecksumCharsIn(lis_call.data) # ChecksumCharsFor(SumIn(lis_call.data)))
    => lis_call.result.raised = "InvalidChecksum"

\* C8 (as the code has it): the text of every accepted frame, intermediate
\* or end, is handed to the LIS2-A2 parser as a record of its own, in the
\* order of arrival; the transfer ends with the first end frame.
C8_OneRecordPerFrame ==
  lis_records # <<>> =>
    /\ Len(lis_records) = Len(lis_accepted)
    /\ \A i \in 1..Len(lis_accepted) :
         /\ lis_records[i] = TextIn(lis_accepted[i])
         /\ TerminatorIn(lis_accepted[i]) = ASCII_ETX <=> i = Len(lis_accepted)

\* The parser was handed the records of three intermediate frames and an
\* end frame.
C8_Witness ==
  /\ Len(lis_records) = 4
  /\ lis_pc = "termination"
  /\ \A i \in 1..3 : TerminatorIn(lis_accepted[i]) = ASCII_ETB

RECURSIVE Joined(_)
Joined(texts) == IF texts = <<>> THEN <<>> ELSE texts[1] \o Joined(Tail(texts))

\* C8 as stated: the parser is handed one record for each end frame, the
\* texts of the intermediate frames before it joined to its text.
C8_AsStated ==
  lis_records # <<>> =>
    lis_records = <<Joined([i \in 1..Len(lis_accepted) |-> TextIn(lis_accepted[i])])>>

\* C9: connect() reads the enquiry, answers it with one ACK, and goes on to
\* the transfer; there it answers every frame it accepts with one ACK
\* before it reads again, and goes on reading frames until the end frame;
\* then it reads the EOT and returns.  A read of anything else ends it with
\* an exception, nothing written for what was read; and after an exception,
\* or after it has returned, it reads and writes nothing.
C9_Step ==
  \/ /\ lis_pc \in {"idle", "connected", "failed"}
     /\ lis_pc' = "idle"
     /\ lis_io' = <<>>
  \/ /\ lis_pc = "idle"
     /\ lis_io' = <<Read(<<ASCII_ENQ>>), Write(<<ASCII_ACK>>)>>
     /\ lis_pc' = "transfer"
     /\ lis_accepted' = <<>>
  \/ /\ lis_pc = "idle"
     /\ Len(lis_io') = 1 /\ lis_io'[1].op = "read"
     /\ lis_io'[1].data # <<ASCII_ENQ>>
     /\ lis_pc' = "failed"
  \/ /\ lis_pc = "transfer"
     /\ Len(lis_io') = 2 /\ lis_io'[1].op = "read"
     /\ lis_io'[2] = Write(<<ASCII_ACK>>)
     /\ SoundButNumber(lis_io'[1].data)
     /\ lis_accepted' = Append(lis_accepted, lis_io'[1].data)
     /\ IF TerminatorIn(lis_io'[1].data) = ASCII_ETB
        THEN lis_pc' = "transfer"
        ELSE \/ lis_pc' = "termination"
             \/ lis_pc' = "failed" /\ lis_raised' # "none"
  \/ /\ lis_pc = "transfer"
     /\ Len(lis_io') = 1 /\ lis_io'[1].op = "read"
     /\ lis_pc' = "failed"
     /\ lis_raised' \in {"InvalidResponse", "InvalidChecksum"}
  \/ /\ lis_pc = "termination"
     /\ lis_io' = <<Read(<<ASCII_EOT>>)>>
     /\ lis_pc' = "connected"
  \/ /\ lis_pc = "termination"
     /\ Len(lis_io') = 1 /\ lis_io'[1].op = "read"
     /\ lis_io'[1].data # <<ASCII_EOT>>
     /\ lis_pc' = "failed"

C9_StrictWalk == [][C9_Step]_vars

\* connect() has returned after a transfer of five frames.
C9_Witness ==
  /\ lis_pc = "connected"
  /\ Len(lis_accepted) = 5
  /\ lis_io = <<Read(<<ASCII_EOT>>)>>

\* The reading each result record of the model stands for: 8.6 mmol/L is
\* 154.8 mg/dL, rounded 155.0; 7.8 mmol/L is 140.4 mg/dL, rounded 140.0.
ReadingOf(text) ==
  IF text = TEXT_RESULT_1 THEN GlucoseReading(<<2016, 8, 24, 23, 6>>, 1550)
  ELSE IF text = TEXT_RESULT_2 THEN GlucoseReading(<<2016, 8, 25, 12, 30>>, 1400)
  ELSE GlucoseReading(<<2016, 8, 25, 18, 33>>, 1000)

\* A header record, a patient record, result records, a terminator record.
FixtureShaped(records) ==
  /\ Len(records) >= 3
  /\ records[1] = TEXT_HEADER
  /\ records[2] = TEXT_PATIENT
  /\ records[Len(records)] = TEXT_TERMINATOR
  /\ \A i \in 3..(Len(records) - 1) : records[i] \in ResultTexts

\* C10: when connect() has returned after a transfer of a header record, a
\* patient record, N result records and a terminator record, _readings
\* (which get_readings() returns) holds N readings, the i-th the reading
\* of the i-th result record.
C10_ReadingsInOrder ==
  (lis_pc = "connected" /\ FixtureShaped(lis_records)) =>
    /\ Len(_readings) = Len(lis_records) - 3
    /\ \A i \in 1..Len(_readings) : _readings[i] = ReadingOf(lis_records[i + 2])

\* connect() has returned with three readings that are not all the same.
C10_Witness ==
  /\ lis_pc = "connected"
  /\ FixtureShaped(lis_records)
  /\ Len(_readings) = 3
  /\ _readings[1] # _readings[2]

(***************************************************************************)
(* Bayer TLV claims                                                        *)
(***************************************************************************)
\* The payload of a block: as many of the bytes after the four header bytes
\* as its length byte says, and as the block has.
PayloadOf(report) ==
  [i \in 1..Min(report[4], Len(report) - 4) |-> report[4 + i]]

IsBlock(report) == report # None /\ Len(report) > 3

RECURSIVE PayloadsOf(_)
PayloadsOf(reports) ==
  IF reports = <<>> THEN <<>>
  ELSE (IF IsBlock(Head(reports)) THEN PayloadOf(Head(reports)) ELSE <<>>)
       \o PayloadsOf(Tail(reports))

FullPayload(report) == IsBlock(report) /\ Len(PayloadOf(report)) = 60

\* C11: _read_lis1a_frame returns the payloads of the blocks it read, joined
\* in order; every block before the last one it read carried a full 60-byte
\* payload, and the last read returned no data, a block with a shorter
\* payload, or 3 bytes or fewer, which raises InvalidResponse.
C11_BlocksJoined ==
  LET n == Len(hid_reports)
      last == hid_reports[n]
  IN  n > 0 =>
        /\ tlv_result.reads = n
        /\ \A i \in 1..(n - 1) : FullPayload(hid_reports[i])
        /\ ~FullPayload(last)
        /\ (tlv_result.raised = "InvalidResponse")
             <=> (last # None /\ Len(last) <= 3)
        /\ tlv_result.raised \in {"none", "InvalidResponse"}
        /\ tlv_result.raised = "none"
             => tlv_result.block = PayloadsOf(hid_reports)

\* A frame of two full blocks takes a third read, which returns no data.
C11_Witness ==
  /\ Len(hid_reports) = 3
  /\ FullPayload(hid_reports[1]) /\ FullPayload(hid_reports[2])
  /\ hid_reports[1] # hid_reports[2]
  /\ hid_reports[3] = None
  /\ tlv_result.reads = 3
  /\ Len(tlv_result.block) = 120
  /\ tlv_result.block = PayloadOf(hid_reports[1]) \o PayloadOf(hid_reports[2])

(***************************************************************************)
(* Contour USB claims                                                      *)
(***************************************************************************)
\* The last step was a round of the sync() of support/contourusb.py or of
\* drivers/contourusb.py, for a reply that ends with `byte`.
UsbReplyEnds(byte) ==
  /\ cu_io.op = "reply"
  /\ cu_driver \in {SUPPORT_USB, DRIVER_USB}
  /\ cu_io.reply # <<>>
  /\ cu_io.reply[Len(cu_io.reply)] = byte

\* The bytes of the reply are text: no byte above 0x7F stands alone.
ReplyIsText ==
  \A i \in 1..Len(cu_io.reply) :
    \/ cu_io.reply[i] < 128
    \/ /\ cu_io.reply[i] \in 128..191
       /\ i > 1 /\ cu_io.reply[i - 1] \in 194..223
    \/ /\ cu_io.reply[i] \in 194..223
       /\ i < Len(cu_io.reply) /\ cu_io.reply[i + 1] \in 128..191

\* The one report the step wrote holds the one byte `byte`.
WroteByte(byte) ==
  /\ Len(cu_io.wrote) = 1
  /\ SubSeq(cu_io.wrote[1], 1, 5) = <<65, 66, 67, 1, byte>>

\* C12: in establish mode, a reply that ends with NAK (0x15) is answered
\* with the retry byte, which then goes up by one modulo 256.
C12_NakCyclesRetryByte ==
  (UsbReplyEnds(NAK) /\ cu_io.mode = mode_establish)
    => /\ WroteByte(cu_io.foo)
       /\ foo = (cu_io.foo + 1) % 256

\* C13: in establish mode, a reply of text that ends with ENQ (0x05) is
\* answered with ACK and resets currecno; the sound frame that makes up the
\* reply after it is accepted and yielded, whatever its number.
C13_EnqResets ==
  [][/\ (UsbReplyEnds(ENQ) /\ cu_io.mode = mode_establish /\ ReplyIsText)'
          => (WroteByte(ACK) /\ currecno = None)'
     /\ (/\ UsbReplyEnds(ENQ) /\ cu_io.mode = mode_establish /\ ReplyIsText
         /\ cu_io'.op = "reply"
         /\ \E n \in 0..7, end \in {ASCII_ETX, ASCII_ETB} :
              cu_io'.reply = RecordFrame(n, TextOf(n), end))
          => /\ cu_accepted' = Append(cu_accepted, SubSeq(cu_io'.reply, 3, 4))
             /\ cu_yielded' = Append(cu_yielded, SubSeq(cu_io'.reply, 3, 4))
             /\ WroteByte(ACK)'
             /\ currecno' = <<(cu_io'.reply[2] - 48 + 1) % 8>>]_vars

\* After an ENQ in establish mode, the frame numbered 5 was accepted.
C13_Witness ==
  /\ cu_io.op = "reply"
  /\ cu_driver = SUPPORT_USB
  /\ cu_pc = "yielded"
  /\ cu_io.mode = mode_establish
  /\ cu_io.tometer = <<ACK>>
  /\ cu_io.recno = None
  /\ cu_io.reply = RecordFrame(5, TextOf(5), ASCII_ETX)
  /\ cu_yielded = <<TextOf(5)>>
  /\ currecno = <<6>>

\* C13 as it was stated: a reply that ends with ENQ is answered with ACK
\* and resets currecno, in whatever mode.
C13_AsStated ==
  UsbReplyEnds(ENQ) => (WroteByte(ACK) /\ currecno = None)

\* C14: in data mode, a reply of text that ends with EOT (0x04) leaves the
\* state precommand and ends the generator with nothing written; every text
\* that checkframe returned has been yielded once, in order.
C14_EotEnds ==
  (UsbReplyEnds(EOT) /\ cu_io.mode = mode_data /\ ReplyIsText)
    => /\ state = mode_precommand
       /\ cu_pc = "done"
       /\ cu_io.wrote = <<>>
       /\ cu_yielded = cu_accepted

\* Two frames were yielded, then the meter sent EOT.
C14_Witness ==
  /\ UsbReplyEnds(EOT)
  /\ cu_io.reply = <<EOT>>
  /\ cu_io.mode = mode_data
  /\ cu_pc = "done"
  /\ Len(cu_yielded) = 2
  /\ cu_yielded[1] # cu_yielded[2]

\* C14 as it was stated: for any reply that ends with EOT in data mode.
C14_AsStated ==
  (UsbReplyEnds(EOT) /\ cu_io.mode = mode_data)
    => /\ state = mode_precommand
       /\ cu_pc = "done"
       /\ cu_io.wrote = <<>>
       /\ cu_yielded = cu_accepted

PlainMessage(usb_packet) ==
  <<usb_packet[1], SubSeq(usb_packet, 3, 2 + usb_packet[2])>>

IsKeepalive(usb_packet) == usb_packet[1] = 34

\* The reports read before the last one.
EarlierReads == SubSeq(fs_read, 1, Len(fs_read) - 1)

LastRead == fs_read[Len(fs_read)]

\* The messages read_response raises CommandError for.
IsErrorMessage(message) ==
  message \in {<<48, <<133>>>>, <<51, <<21>>>>, <<51, <<20>>>>}

ConnectEnded == fs_call.op = "connect" /\ fs_pc \in {"returned", "raised"}

\* C16, amended: connect writes exactly one INIT report (type 0x01, no
\* command) and never another; it reads on past keepalives only; it
\* succeeds exactly when the first response that is not a keepalive is
\* (0x71, [0x01]); any other such response raises CommandError where
\* read_response raises it, and ConnectionFailed otherwise.
C16_ConnectFirstResponse ==
  fs_call.op = "connect" =>
    /\ fs_written = <<(<<0, 1, 0>> \o Repeat(0, 62))>>
    /\ fs_pc = "reading" => \A k \in 1..Len(fs_read) : IsKeepalive(fs_read[k])
    /\ ConnectEnded =>
         /\ \A k \in 1..Len(EarlierReads) : IsKeepalive(EarlierReads[k])
         /\ ~IsKeepalive(LastRead)
         /\ fs_result.raised =
              IF PlainMessage(LastRead) = <<113, <<1>>>> THEN "none"
              ELSE IF IsErrorMessage(PlainMessage(LastRead))
                THEN "CommandError"
              ELSE "ConnectionFailed"

\* connect succeeded on the response that followed a keepalive.
C16_Witness ==
  /\ ConnectEnded
  /\ fs_pc = "returned"
  /\ Len(fs_read) = 2
  /\ IsKeepalive(fs_read[1])

\* C16 as stated: connect succeeds only if the report read first is
\* (0x71, [0x01]), and raises ConnectionFailed for any other.
C16_AsStated ==
  ConnectEnded =>
    /\ fs_written = <<(<<0, 1, 0>> \o Repeat(0, 62))>>
    /\ fs_result.raised =
         IF PlainMessage(fs_read[1]) = <<113, <<1>>>> THEN "none"
         ELSE "ConnectionFailed"

\* The message of a report read with the setting `encrypted`: with the
\* length byte when the read is unencrypted or the type is never encrypted,
\* else all the bytes after the type.
DecodedAs(usb_packet, encrypted) ==
  IF ~encrypted \/ usb_packet[1] \in _ALWAYS_UNENCRYPTED_MESSAGES
    THEN PlainMessage(usb_packet)
  ELSE <<usb_packet[1], SubSeq(usb_packet, 2, Len(usb_packet))>>

\* C17: read_response never returns a keepalive (type 0x22): as long as
\* only keepalives were read it reads another report, with the encryption
\* setting it was called with, and the value it returns is the message of
\* the first report that is not a keepalive.
C17_KeepaliveDiscarded ==
  fs_call.op = "read_response" =>
    /\ fs_pc = "reading" =>
         /\ \A k \in 1..Len(fs_read) : IsKeepalive(fs_read[k])
         /\ fs_call.reading = fs_call.encrypted
    /\ fs_pc \in {"returned", "raised"} =>
         /\ \A k \in 1..Len(EarlierReads) : IsKeepalive(EarlierReads[k])
         /\ ~IsKeepalive(LastRead)
    /\ fs_pc = "returned" =>
         /\ fs_result.value = DecodedAs(LastRead, fs_call.encrypted)
         /\ fs_result.value[1] # 34

\* An encrypted read_response returned the message that followed two
\* keepalives, in the encrypted layout.
C17_Witness ==
  /\ fs_call.op = "read_response"
  /\ fs_call.encrypted
  /\ fs_pc = "returned"
  /\ Len(fs_read) = 3
  /\ IsKeepalive(fs_read[1])
  /\ IsKeepalive(fs_read[2])
  /\ Len(fs_result.value[2]) = 63

\* A call that reads reports has ended.
ReadingEnded ==
  /\ fs_call.op \in {"connect", "read_response", "send_text_command"}
  /\ fs_pc \in {"returned", "raised"}
  /\ fs_read # <<>>

\* The message the call's last read_response made of its report.
LastMessage == DecodedAs(LastRead, fs_call.reading)

\* C18, amended: read_response raises CommandError for every received
\* message of type 0x30 whose content is exactly [0x85] and for every
\* message of type 0x33 whose content is [0x15] (encryption missing) or
\* [0x14] (encryption setup failed); such a message is never returned.
C18_ErrorMessagesRaise ==
  (ReadingEnded /\ IsErrorMessage(LastMessage)) =>
    /\ fs_pc = "raised"
    /\ fs_result.raised = "CommandError"

\* read_response raised CommandError for (0x30, [0x85]).
C18_Witness ==
  /\ ReadingEnded
  /\ fs_call.op = "read_response"
  /\ LastMessage = <<48, <<133>>>>
  /\ fs_result.raised = "CommandError"

\* C18 as stated: every message of type 0x30 raises CommandError.
C18_AsStated ==
  (ReadingEnded /\ LastMessage[1] = 48) => fs_result.raised = "CommandError"

\* The report of the layout with the length byte: the report id, the
\* type, the length of the command, the command, zeros up to 65 bytes.
PlainReport(message_type, command) ==
  <<0, message_type, Len(command)>> \o command
    \o Repeat(0, 62 - Len(command))

\* C19: for every message type in _ALWAYS_UNENCRYPTED_MESSAGES and either
\* value of the encrypted flag, send_command never builds or writes the
\* report in the encrypted layout (called with encrypted set it raises
\* AssertionError and writes nothing, else it writes the layout with the
\* length byte), and the message read_response returns for a report of
\* such a type is the one the length byte gives.
C19_NeverEncrypted ==
  /\ (/\ fs_call.op = "send_command"
      /\ fs_call.message_type \in _ALWAYS_UNENCRYPTED_MESSAGES) =>
       /\ fs_result.value # "encrypted"
       /\ IF fs_call.encrypted
            THEN fs_written = <<>> /\ fs_result.raised = "AssertionError"
          ELSE /\ fs_written
                    = <<PlainReport(fs_call.message_type, fs_call.command)>>
               /\ fs_result.raised = "none"
  /\ (/\ fs_call.op = "read_response"
      /\ fs_pc = "returned"
      /\ LastRead[1] \in _ALWAYS_UNENCRYPTED_MESSAGES) =>
       fs_result.value = PlainMessage(LastRead)

\* An encrypted read_response returned a message of type 0x33 with the two
\* bytes of content its length byte counts.
C19_Witness ==
  /\ fs_call.op = "read_response"
  /\ fs_call.encrypted
  /\ fs_pc = "returned"
  /\ LastRead[1] = 51
  /\ fs_result.value = <<51, <<1, 2>>>>

\* The contents of the text replies among `reads`, joined in the order of
\* arrival; keepalives add nothing.
RECURSIVE Gathered(_)
Gathered(reads) ==
  IF reads = <<>> THEN <<>>
  ELSE Gathered(SubSeq(reads, 1, Len(reads) - 1))
       \o (IF reads[Len(reads)][1] = TEXT_REPLY
             THEN PlainMessage(reads[Len(reads)])[2]
           ELSE <<>>)

\* The content holds 'CMD OK' or 'CMD Fail!'.
HasTerminator(content) ==
  Contains(content, CMD_OK) \/ Contains(content, CMD_FAIL)

IsTextOrKeepalive(usb_packet) ==
  usb_packet[1] = TEXT_REPLY \/ IsKeepalive(usb_packet)

TextCommandEnded ==
  /\ fs_call.op = "send_text_command"
  /\ fs_pc \in {"returned", "raised"}
  /\ fs_read # <<>>

\* C20, amended: send_text_command, for a command of at most 62 bytes,
\* writes exactly one command report and from then on only reads (a longer
\* command raises PaddingError, nothing written or read): it appends the content of each text-reply
\* report in arrival order and stops reading at the first report after
\* which the accumulated content contains 'CMD OK' or 'CMD Fail!'; a
\* message of any other type that read_response returns before that point
\* raises InvalidResponse (read_response drops keepalives and raises
\* CommandError for the error messages itself).
C20_TextAccumulation ==
  fs_call.op = "send_text_command" =>
    IF Len(fs_call.command) > 62
      THEN /\ fs_written = <<>>
           /\ fs_read = <<>>
           /\ fs_result.raised = "PaddingError"
    ELSE
    /\ fs_written = <<PlainReport(_text_message_type, fs_call.command)>>
    /\ fs_pc = "reading" =>
         /\ \A k \in 1..Len(fs_read) : IsTextOrKeepalive(fs_read[k])
         /\ full_content = Gathered(fs_read)
         /\ ~HasTerminator(full_content)
    /\ TextCommandEnded =>
         /\ \A k \in 1..Len(EarlierReads) : IsTextOrKeepalive(EarlierReads[k])
         /\ ~HasTerminator(Gathered(EarlierReads))
         /\ ~IsKeepalive(LastRead)
         /\ IF LastRead[1] = TEXT_REPLY
              THEN /\ full_content = Gathered(fs_read)
                   /\ HasTerminator(full_content)
            ELSE fs_result.raised =
                   IF IsErrorMessage(PlainMessage(LastRead))
                     THEN "CommandError"
                   ELSE "InvalidResponse"

\* send_text_command returned 'ab' from three reports, the terminator
\* split over the last two.
C20_Witness ==
  /\ TextCommandEnded
  /\ fs_pc = "returned"
  /\ Len(fs_read) = 3
  /\ \A k \in 1..3 : fs_read[k][1] = TEXT_REPLY
  /\ fs_result.value = TEXT_AB

\* C20 as stated: a report of any other message type read before the
\* terminator raises InvalidResponse.
C20_AsStated ==
  fs_call.op = "send_text_command" =>
    /\ Len(fs_written) = 1
    /\ \A k \in 1..Len(fs_read) :
         (fs_read[k][1] # TEXT_REPLY
            /\ ~HasTerminator(Gathered(SubSeq(fs_read, 1, k - 1)))) =>
           /\ k = Len(fs_read)
           /\ fs_result.raised = "InvalidResponse"

\* InvalidChecksum is a subclass of InvalidResponse (exceptions.py, line
\* 39).
IsInvalidResponse(exception) ==
  exception \in {"InvalidResponse", "InvalidChecksum"}

\* send_text_command has ended on a text reply report, the terminator read.
TextReplyComplete ==
  /\ TextCommandEnded
  /\ LastRead[1] = TEXT_REPLY

\* The checksum the reply holds is the sum of the bytes of its message.
ChecksumRight(match) == HexValue(match.checksum) = SumBytes(match.message)

\* C21: send_text_command returns message text only when the checksum in
\* the reply equals the byte sum of the message and the status is OK; a
\* reply whose status is Fail! raises InvalidResponse (InvalidChecksum is
\* one), a reply whose checksum does not match raises InvalidChecksum, and
\* in neither case is text returned.
C21_ChecksumAndStatus ==
  TextReplyComplete =>
    /\ fs_pc = "returned" =>
         /\ TextReplyMatch(full_content).matched
         /\ ChecksumRight(TextReplyMatch(full_content))
         /\ TextReplyMatch(full_content).status = <<79, 75>>
         /\ fs_result.value = TextReplyMatch(full_content).message
    /\ (/\ TextReplyMatch(full_content).matched
        /\ ~ChecksumRight(TextReplyMatch(full_content))) =>
         fs_pc = "raised" /\ fs_result.raised = "InvalidChecksum"
    /\ (/\ TextReplyMatch(full_content).matched
        /\ TextReplyMatch(full_content).status # <<79, 75>>) =>
         fs_pc = "raised" /\ IsInvalidResponse(fs_result.raised)

\* A reply with status Fail! and a right checksum raised InvalidResponse.
C21_Witness ==
  /\ TextReplyComplete
  /\ TextReplyMatch(full_content).matched
  /\ TextReplyMatch(full_content).status = <<70, 97, 105, 108, 33>>
  /\ ChecksumRight(TextReplyMatch(full_content))
  /\ fs_result.raised = "InvalidResponse"

(***************************************************************************)
(* FreeStyle multirecord queries                                           *)
(***************************************************************************)
\* What send_text_command returned to query_multirecord.
MultirecordMessage == TextReply(mr_content)

\* C22: query_multirecord returns an empty sequence of records, without
\* raising, whenever the body of the reply is 'Log Empty' and its line
\* end; a body that is neither that nor a block of records followed by a
\* count and a checksum raises InvalidResponse.
C22_LogEmpty ==
  MultirecordMessage.raised = "none" =>
    /\ MultirecordMessage.value = LOG_EMPTY =>
         mr_result = Returns(<<>>)
    /\ (/\ MultirecordMessage.value # LOG_EMPTY
        /\ ~MultirecordMatch(MultirecordMessage.value).matched) =>
         mr_result.raised = "InvalidResponse"

\* The reply to a query was 'Log Empty', and no record came of it.
C22_Witness ==
  /\ MultirecordMessage.raised = "none"
  /\ MultirecordMessage.value = LOG_EMPTY
  /\ mr_result = Returns(<<>>)

\* The reply held a block of records, and query_multirecord returned them.
RecordsReturned ==
  /\ MultirecordMessage.raised = "none"
  /\ MultirecordMessage.value # LOG_EMPTY
  /\ MultirecordMatch(MultirecordMessage.value).matched
  /\ mr_result.raised = "none"

\* C23: query_multirecord returns records only if the count in the
\* trailer of the reply equals the number of records in its body, each a
\* line of the block.
C23_CountValidated ==
  RecordsReturned =>
    DigitsValue(MultirecordMatch(MultirecordMessage.value).count)
      = Len(SplitLines(MultirecordMatch(MultirecordMessage.value).message)) - 1

(***************************************************************************)
(* C24: wait_and_ready of the SD CodeFree driver                           *)
(***************************************************************************)
\* What the serial port held after the leading null bytes.
AfterNulls == Drop(sd_serial, LeadingNulls(sd_serial))

\* The seven bytes after the null bytes are the challenge.
ChallengeMatched == Take(AfterNulls, 7) = <<83, 32, 4, 16, 48, 32, 170>>

\* The response message in its packet: 53 10 04 10 40 50 AA.
ResponsePacket == <<83, 16, 4, 16, 64, 80, 170>>

\* C24: wait_and_ready discards the leading 0x00 bytes; when the next seven
\* bytes are not the challenge 53 20 04 10 30 20 AA it raises
\* ConnectionFailed and has written nothing; when they are, it has written
\* the response exactly once, and the value it returns is the 16-bit
\* big-endian count of the first message received after the response.
C24_ChallengeThenCount ==
  sd_serial # <<>> =>
    /\ ~ChallengeMatched =>
         /\ sd_result.raised = "ConnectionFailed"
         /\ sd_written = <<>>
    /\ ChallengeMatched =>
         /\ sd_written = <<ResponsePacket>>
         /\ sd_result.raised # "ConnectionFailed"
         /\ sd_result.raised = "none" =>
              sd_result.value = 256 * AfterNulls[12] + AfterNulls[13]

\* Two null bytes, the challenge, and a first message of 258 readings:
\* the response was written once and 258 returned.
C24_Witness ==
  /\ LeadingNulls(sd_serial) = 2
  /\ ChallengeMatched
  /\ sd_written = <<ResponsePacket>>
  /\ sd_result.raised = "none"
  /\ sd_result.value = 258

(***************************************************************************)
(* C29: one byte of a frame replaced                                       *)
(***************************************************************************)
\* The errors of construct for a frame that does not parse: a checksum
\* that differs, a constant or a direction that is none of the protocol's,
\* a frame that ends early.
FramingErrors == {"ChecksumError", "ConstError", "MappingError", "StreamError"}

\* One byte of the frame parsed was replaced with another value.
OneByteReplaced ==
  /\ pkt_decoder # "none"
  /\ pkt_at # 0
  /\ pkt_parsed[pkt_at] # pkt_frame[pkt_at]

\* The replaced byte is the direction or the length of an SD CodeFree
\* frame, which its checksum does not cover.
OutsideChecksum == pkt_decoder = "sdcodefree" /\ pkt_at \in {2, 3}

\* C29: for every frame the SD CodeFree or the TaiDoc packet decoder
\* accepts, replacing one byte with a different value makes the decoder
\* reject the frame with a checksum or framing error; for an SD CodeFree
\* frame, one byte other than the direction and the length bytes.
C29_SingleByteRejected ==
  /\ pkt_decoder # "none" /\ pkt_at = 0 => pkt_result.raised = "none"
  /\ OneByteReplaced /\ ~OutsideChecksum => pkt_result.raised \in FramingErrors

\* The direction of a TaiDoc frame replaced with the other direction: the
\* checksum covers it and the frame is rejected.
C29_Witness ==
  /\ OneByteReplaced
  /\ pkt_decoder = "td42xx"
  /\ pkt_at = 7
  /\ pkt_parsed[7] = 163
  /\ pkt_result.raised = "ChecksumError"

\* C29 as stated: any one byte replaced, of either decoder's frames.
C29_AsStated ==
  OneByteReplaced => pkt_result.raised \in FramingErrors

\* The direction of an SD CodeFree frame replaced is accepted with the
\* same message.
C29_DirectionAccepted ==
  /\ OneByteReplaced
  /\ pkt_decoder = "sdcodefree"
  /\ pkt_at = 2
  /\ pkt_result.raised = "none"
  /\ pkt_result.value = SubSeq(pkt_frame, 4, Len(pkt_frame) - 2)

\* The length of an SD CodeFree frame replaced is accepted with a shorter
\* message.
C29_LengthAccepted ==
  /\ OneByteReplaced
  /\ pkt_decoder = "sdcodefree"
  /\ pkt_at = 3
  /\ pkt_result.raised = "none"
  /\ Len(pkt_result.value) < Len(pkt_frame) - 5

(***************************************************************************)
(* C30: _validate_and_strip_checksum of the OneTouch Ultra 2 driver        *)
(***************************************************************************)
\* The line is ASCII, as the lines the driver decodes are.
AsciiLine == \A k \in 1..Len(ot_line) : ot_line[k] < 128

\* After its first n characters the line goes on with a space, four upper
\* case hexadecimal digits and a carriage return, and `tail` ends it.
ChecksumAfter(n, tail) ==
  /\ Len(ot_line) = n + 6 + Len(tail)
  /\ ot_line[n + 1] = 32
  /\ \A k \in (n + 2)..(n + 5) :
       ot_line[k] \in {48, 49, 50, 51, 52, 53, 54, 55, 56, 57,
                       65, 66, 67, 68, 69, 70}
  /\ ot_line[n + 6] = 13
  /\ Drop(ot_line, n + 6) = tail

\* The first n characters are a response: one character at least and no
\* line feed among them.
ResponseOf(n) == n >= 1 /\ \A k \in 1..n : ot_line[k] # 10

\* The digits after the first n characters and the space are the sum of
\* these characters modulo 2^16.
ChecksumRightAfter(n) ==
  HexValue(SubSeq(ot_line, n + 2, n + 5)) = ChecksumOf(ot_line, 1, n)

\* C30: _validate_and_strip_checksum has exactly three outcomes for any
\* ASCII input line: MissingChecksum if the line is not a response of at
\* least one character without a line feed, followed by a space, four
\* uppercase hexadecimal digits and CR, with at most one line feed after
\* the CR; otherwise InvalidChecksum if those digits differ from the sum of
\* the preceding response bytes modulo 2^16; otherwise the response text
\* with the checksum removed.
C30_ThreeOutcomes ==
  ot_line # <<>> /\ AsciiLine =>
    /\ (\A n \in 0..Len(ot_line) :
          ~(ResponseOf(n) /\ (ChecksumAfter(n, <<>>) \/ ChecksumAfter(n, <<10>>))))
         => ot_stripped = Raises("MissingChecksum")
    /\ \A n \in 0..Len(ot_line) :
         ResponseOf(n) /\ (ChecksumAfter(n, <<>>) \/ ChecksumAfter(n, <<10>>)) =>
           IF ChecksumRightAfter(n)
             THEN ot_stripped = Returns(Take(ot_line, n))
             ELSE ot_stripped = Raises("InvalidChecksum")

\* 'TTTT 0150\r' gives 'TTTT', and 517 bytes of 0x7F with ' 007B\r'
\* would for the sum modulo 2^16; here the former.
C30_Witness ==
  /\ ot_line = <<84, 84, 84, 84, 32, 48, 49, 53, 48, 13>>
  /\ ot_stripped = Returns(<<84, 84, 84, 84>>)

\* C30 as stated: MissingChecksum if the line does not end with a space,
\* four uppercase hexadecimal digits and CR; otherwise InvalidChecksum if
\* the digits differ from the sum of the bytes before the space; otherwise
\* the text before the space.
C30_AsStated ==
  ot_line # <<>> /\ AsciiLine =>
    /\ (\A n \in 0..Len(ot_line) : ~ChecksumAfter(n, <<>>))
         => ot_stripped = Raises("MissingChecksum")
    /\ \A n \in 0..Len(ot_line) :
         ChecksumAfter(n, <<>>) =>
           IF ChecksumRightAfter(n)
             THEN ot_stripped = Returns(Take(ot_line, n))
             ELSE ot_stripped = Raises("InvalidChecksum")

\* A line that ends with a line feed after the CR is accepted.
C30_LineFeedAccepted ==
  /\ ot_line = <<84, 32, 48, 48, 53, 52, 13, 10>>
  /\ ot_stripped = Returns(<<84>>)

\* A line of a checksum alone misses its checksum.
C30_EmptyResponseMissing ==
  /\ ot_line = <<32, 48, 48, 48, 48, 13>>
  /\ ot_stripped = Raises("MissingChecksum")

\* A response with a line feed in it misses its checksum.
C30_InnerLineFeedMissing ==
  /\ ot_line = <<65, 10, 66, 32, 48, 48, 56, 68, 13>>
  /\ ot_stripped = Raises("MissingChecksum")

\* The sum wraps at 16 bits: 517 bytes of 0x7F carry the checksum 007B.
C30_SumWraps ==
  /\ Len(ot_line) = LongResponse + 6
  /\ SubSeq(ot_line, LongResponse + 1, LongResponse + 6)
       = <<32>> \o Hex4((127 * LongResponse) % 65536) \o <<13>>
  /\ ot_stripped.raised = "none"

(***************************************************************************)
(* C25: a malformed record during a retrieval                              *)
(***************************************************************************)
\* The fields of the row that the entry map reads, those the row holds,
\* are integers.
FieldsInteger(row, entry_map) ==
  \A k \in 1..Len(entry_map) :
    entry_map[k][1] + 1 <= Len(row) =>
      int(row[entry_map[k][1] + 1]).raised = "none"

\* The row is a record with fewer than n fields.
TooFewFields(row, n) == row # <<>> /\ Len(row) < n

\* The type of a row of $arresult? that holds the base fields.
TypeOf(row) == int(row[2]).value

\* A row of $history? with a field that is read and is no integer.
MalformedHistory(row) ==
  row # <<>> /\ ~FieldsInteger(row, _HISTORY_ENTRY_MAP)

\* A row of $arresult? with a field that is read and is no integer, or
\* with the base fields but too few for its type.
MalformedArresult(row) ==
  /\ row # <<>>
  /\ \/ ~FieldsInteger(row, _BASE_ENTRY_MAP)
     \/ /\ Len(row) >= 8
        /\ TypeOf(row) = 2
        /\ Len(row) < 29 \/ ~FieldsInteger(row, _ARRESULT_TYPE2_ENTRY_MAP)
     \/ /\ Len(row) >= 8
        /\ TypeOf(row) = 5
        /\ Len(row) < 15
             \/ ~FieldsInteger(row, _ARRESULT_TIME_ADJUSTMENT_ENTRY_MAP)

\* A row the Libre driver skips for its length: fewer fields than the base
\* of its entry map names, and those read before the missing one integers.
SkippedForLength(row, entry_map, n) ==
  TooFewFields(row, n) /\ FieldsInteger(row, entry_map)

\* get_readings of the Ultra 2 raised, having yielded no more readings
\* than there are lines before the k-th line of the dump.
OT_AbortedAt(k) ==
  /\ ot_readings.raised # "none"
  /\ Len(ot_readings.value) <= k - 1

\* get_readings of the Libre raised, having yielded no more readings than
\* there are rows before the k-th.
Libre_AbortedAt(k) ==
  /\ lb_readings.raised # "none"
  /\ Len(lb_readings.value) <= k - 1

C25_Ultra2Aborted ==
  /\ Len(ot_data) = 3
  /\ ot_data[2] \in GoodLines
  /\ ot_data[3] \notin GoodLines
  /\ ot_readings.raised = "InvalidChecksum"
  /\ Len(ot_readings.value) = 1

C25_ShortSkipped ==
  /\ lb_history = Returns(<<Take(HistoryRecord(0), 15), HistoryRecord(0), <<>>>>)
  /\ lb_arresult = Returns(<<>>)
  /\ lb_readings.raised = "none"
  /\ Len(lb_readings.value) = 1

(***************************************************************************)
(* C26: _parse_arresult classifies a record by its type                    *)
(***************************************************************************)
\* The field of index idx of the record given to _parse_arresult, as the
\* integer it is.
Field(idx) == int(lb_record[idx + 1]).value

\* The record holds the n fields the entry map reads, all integers.
Holds(entry_map, n) ==
  Len(lb_record) >= n /\ FieldsInteger(lb_record, entry_map)

\* The record holds the fields of a type-2 record as integers, and the
\* rapid-acting dose as one if its flag is set and it holds the dose.
HoldsType2 ==
  /\ Holds(_BASE_ENTRY_MAP, 8)
  /\ Holds(_ARRESULT_TYPE2_ENTRY_MAP, 29)
  /\ Field(17) # 0 => FieldsInteger(lb_record, _ARRESULT_RAPID_INSULIN_ENTRY_MAP)

\* The record holds the fields of a type-5 record as integers.
HoldsType5 ==
  /\ Holds(_BASE_ENTRY_MAP, 8)
  /\ Holds(_ARRESULT_TIME_ADJUSTMENT_ENTRY_MAP, 15)

\* The six fields from index idx on, the year among them at index year,
\* are a date and a time there is.
IsTimestamp(month, day, year, hour, minute, second) ==
  /\ Field(year) + 2000 \in 1..9999
  /\ Field(month) \in 1..12
  /\ Field(day) >= 1
  /\ Field(day) <= (IF Field(month) \in {4, 6, 9, 11} THEN 30
                    ELSE IF Field(month) # 2 THEN 31
                    ELSE IF (Field(year) % 4 = 0 /\ (Field(year) + 2000) % 100 # 0)
                            \/ (Field(year) + 2000) % 400 = 0 THEN 29
                    ELSE 28)
  /\ Field(hour) \in 0..23
  /\ Field(minute) \in 0..59
  /\ Field(second) \in 0..59

\* The record holds a custom comment for every bit of its bitfield that is
\* set.
HoldsComments ==
  \A comment_index \in 0..5 :
    (Field(19) \div (2 ^ comment_index)) % 2 = 1
      => Len(lb_record) >= 29 + comment_index + 1

\* _parse_arresult returned a reading of the class.
Gave(cls) == lb_parsed.raised = "none" /\ lb_parsed.value.cls = cls

C26_ErrorsGate ==
  /\ HoldsType2
  /\ Field(1) = 2 /\ Field(28) # 0 /\ Field(2) = 13
  /\ lb_parsed = Returns(NoReading)

\* The type of the record can be read.
TypeReadable == Len(lb_record) >= 2 /\ int(lb_record[2]).raised = "none"

C26_ShortAdjustment ==
  /\ Holds(_BASE_ENTRY_MAP, 8)
  /\ Len(lb_record) = 12
  /\ Field(1) = 5
  /\ lb_parsed.raised = "KeyError"

\* A type-2 record with errors whose value is no number raised ValueError.
C26_ErrorsNotANumber ==
  /\ Len(lb_record) = MaxFields
  /\ Holds(_BASE_ENTRY_MAP, 8)
  /\ Field(1) = 2
  /\ int(lb_record[29]).raised = "none" /\ Field(28) # 0
  /\ lb_record[13] = <<120>>
  /\ lb_parsed.raised = "ValueError"

(***************************************************************************)
(* C27: the optional fields of a type-2 record                             *)
(***************************************************************************)
\* A type-2 record without errors, of a reading type there is, with the
\* base fields and a timestamp.
Type2Reading ==
  /\ lb_record # <<>>
  /\ Holds(_BASE_ENTRY_MAP, 8)
  /\ Field(1) = 2
  /\ IsTimestamp(2, 3, 4, 5, 6, 7)

\* The fields of a type-2 record that are no optional ones, by index: the
\* reading type, the value, the flags, the bitfield and the errors.
RequiredOfType2 == {9, 12, 15, 16, 17, 18, 19, 25, 28}

\* The record holds 29 fields and those of the indexes as integers.
HoldsFields(indexes) ==
  /\ Len(lb_record) >= 29
  /\ \A idx \in indexes : int(lb_record[idx + 1]).raised = "none"

\* The field of index idx is held as an integer if the flag at index
\* flag is set.
HeldIfSet(flag, idx) ==
  Field(flag) # 0 =>
    Len(lb_record) >= idx + 1 /\ int(lb_record[idx + 1]).raised = "none"

C27_DoseReadWithoutFlag ==
  /\ Type2Reading
  /\ HoldsFields(RequiredOfType2 \cup {26})
  /\ Field(18) = 0
  /\ lb_record[24] = <<120>>
  /\ lb_parsed.raised = "ValueError"

\* The rapid-acting flag is clear and the field at index 43 no number: a
\* reading all the same.
C27_RapidNotRead ==
  /\ Type2Reading
  /\ Len(lb_record) = MaxFields
  /\ HoldsFields(RequiredOfType2 \cup {23, 26})
  /\ Field(17) = 0 /\ Field(28) = 0 /\ Field(9) = 0
  /\ lb_record[44] = <<120>>
  /\ Gave("GlucoseReading")

(***************************************************************************)
(* Properties of the OneTouch Verio 2015 register framing.                 *)
(***************************************************************************)
\* The length field of a register.
LengthOf(register) == UnpackUint16(register[2], register[3])

\* Every byte after the first `length` bytes of the register is zero.
ZeroAfterMessage(register) ==
  \A i \in (LengthOf(register) + 1)..Len(register) : register[i] = 0

Accepted == vo_call = "extract_encode" /\ vo_response.raised = "none"

\* C28 (as amended): _extract_message(_encode_message(cmd)) is cmd for every
\* command of 0 to 506 bytes, and _encode_message(_extract_message(b)) is b
\* for every 512-byte register b that _extract_message accepts and whose
\* bytes after the first `length` bytes, the length field's value, are all
\* zero.
C28_RoundTrip ==
  /\ (vo_call = "encode_extract" /\ Len(vo_cmd) <= 506)
       => /\ vo_register.raised = "none"
          /\ vo_response.raised = "none"
          /\ vo_response.value = vo_cmd
  /\ (Accepted /\ ZeroAfterMessage(vo_register.value))
       => /\ vo_rebuilt.raised = "none"
          /\ vo_rebuilt.value = vo_register.value

\* Both ways have happened on a message that holds bytes: here a register
\* holding a three-byte message was accepted and framed again to itself.
C28_Witness ==
  /\ Accepted
  /\ ZeroAfterMessage(vo_register.value)
  /\ vo_response.value = <<65, 3, 255>>
  /\ vo_rebuilt.value = vo_register.value

\* A 506-byte command fills the register and comes back whole.
C28_LargestCommand ==
  /\ vo_call = "encode_extract"
  /\ Len(vo_cmd) = 506
  /\ Len(vo_register.value) = _REGISTER_SIZE
  /\ vo_response.value = vo_cmd

\* C28 as stated: framing again what an accepted register held gives the
\* register back, whatever follows the message in it.
C28_AsStated ==
  Accepted => (vo_rebuilt.raised = "none"
               /\ vo_rebuilt.value = vo_register.value)

\* A register with a byte that is not zero after the message is accepted,
\* and framing its message again gives zeros there.
C28_PaddingIgnored ==
  /\ Accepted
  /\ LengthOf(vo_register.value) >= 6
  /\ ~ZeroAfterMessage(vo_register.value)
  /\ vo_rebuilt.raised = "none"
  /\ vo_rebuilt.value # vo_register.value

\* A register whose length field is zero is accepted when its last three
\* bytes are an end byte and the checksum of the 510 bytes before them; its
\* 506-byte message is framed again with the length 512.
C28_ZeroLengthAccepted ==
  /\ Accepted
  /\ LengthOf(vo_register.value) = 0
  /\ Len(vo_response.value) = 506
  /\ LengthOf(vo_rebuilt.value) = _REGISTER_SIZE

\* A command of 507 bytes is not framed.
C28_TooLongRaises ==
  /\ vo_call = "encode_extract"
  /\ Len(vo_cmd) = 507
  /\ vo_register = Raises("ValueError")

(***************************************************************************)
(* Properties of lifescan.crc_ccitt.                                       *)
(***************************************************************************)
\* C31: crc_ccitt returns a value in 0..0xFFFF for every byte string, 0x41CD
\* for the bytes 02 06 06 03 and 0x62C2 for 02 06 08 03, and the same value
\* for a bytes object and for an array of the same byte values.
C31_CrcValues ==
  cc_data # <<-1>> =>
    /\ cc_bytes \in 0..65535
    /\ cc_array = cc_bytes
    /\ (cc_data = <<2, 6, 6, 3>> => cc_bytes = 16845)
    /\ (cc_data = <<2, 6, 8, 3>> => cc_array = 25282)

\* The checksum of the array 02 06 08 03 has been computed.
C31_Witness ==
  /\ cc_data = <<2, 6, 8, 3>>
  /\ cc_array = 25282

\* The checksum of the bytes 02 06 06 03 has been computed.
C31_BytesVector ==
  /\ cc_data = <<2, 6, 6, 3>>
  /\ cc_bytes = 16845

\* The checksum of the empty string is the seed.
C31_EmptyIsSeed ==
  /\ cc_data = <<>>
  /\ cc_bytes = 65535

(***************************************************************************)
(* Properties of the TaiDoc date and time.                                 *)
(***************************************************************************)
\* The little-endian word in the first two bytes of the message.
TD_Word == td_message[1] + 256 * td_message[2]

TD_Parsed == cv_call = "_parse_datetime" /\ td_datetime.raised = "none"

\* C32: _parse_datetime decodes a four-byte message as a little-endian
\* 16-bit word holding year-2000 in its 7 most significant bits, the month
\* in the next 4 and the day in the last 5, followed by a minute byte and an
\* hour byte; 21 24 0E 15 is 2018-01-01 21:14 and 21 26 0E 15 is
\* 2019-01-01 21:14.
C32_DatetimeLayout ==
  /\ TD_Parsed =>
       td_datetime.value = <<2000 + (TD_Word \div 512), (TD_Word \div 32) % 16,
                             TD_Word % 32, td_message[4], td_message[3], 0>>
  /\ (cv_call = "_parse_datetime" /\ td_message = <<33, 36, 14, 21>>)
       => td_datetime = Returns(<<2018, 1, 1, 21, 14, 0>>)
  /\ (cv_call = "_parse_datetime" /\ td_message = <<33, 38, 14, 21>>)
       => td_datetime = Returns(<<2019, 1, 1, 21, 14, 0>>)

\* The message 21 24 0E 15 has been decoded.
C32_Witness ==
  /\ TD_Parsed
  /\ td_message = <<33, 36, 14, 21>>
  /\ td_datetime.value = <<2018, 1, 1, 21, 14, 0>>

\* The third message of the test, 04 27 25 0D, is 2019-08-04 13:37.
C32_ThirdVector ==
  /\ TD_Parsed
  /\ td_message = <<4, 39, 37, 13>>
  /\ td_datetime.value = <<2019, 8, 4, 13, 37, 0>>

\* A word with no month in it is no date.
C32_NoSuchDate ==
  /\ cv_call = "_parse_datetime"
  /\ Len(td_message) = 4
  /\ td_datetime = Raises("ValueError")

(***************************************************************************)
(* Properties of the ketone scaling.                                       *)
(***************************************************************************)
KetoneCalls == {"fslibre._convert_ketone_unit", "freestyle.convert_ketone_unit"}

\* The fraction `value` is num / den.
IsFraction(value, num, den) == value[1] * den = num * value[2]

\* round(value, 2) of the fraction in hundredths, the value not negative.
Hundredths(value) == (200 * value[1] + value[2]) \div (2 * value[2])

\* What the code makes of the raw value 10: 0.5 mmol/L in drivers/fslibre.py,
\* int((raw + 1) / 2) / 10, and 10 / 18 mmol/L, 0.56 to two decimals, in
\* support/freestyle.py, raw / 18.
C33_KetoneOfTen ==
  /\ (cv_call = "fslibre._convert_ketone_unit" /\ kt_raw = 10)
       => IsFraction(kt_value, 1, 2)
  /\ (cv_call = "freestyle.convert_ketone_unit" /\ kt_raw = 10)
       => (IsFraction(kt_value, 10, 18) /\ Hundredths(kt_value) = 56)

\* The raw value 10 has been converted by drivers/fslibre.py.
C33_Witness ==
  /\ cv_call = "fslibre._convert_ketone_unit"
  /\ kt_raw = 10
  /\ IsFraction(kt_value, 5, 10)

\* The raw value 10 has been converted by support/freestyle.py.
C33_EighteenthsOfTen ==
  /\ cv_call = "freestyle.convert_ketone_unit"
  /\ kt_raw = 10
  /\ Hundredths(kt_value) = 56

\* C33: the raw ketone value 10 read from the device converts to
\* 0.55 mmol/L.
C33_AsStated ==
  (cv_call \in KetoneCalls /\ kt_raw = 10) => IsFraction(kt_value, 55, 100)

\* No raw value converts to 0.55 mmol/L in either function.
C33_NeverFiftyFive ==
  cv_call \in KetoneCalls => ~IsFraction(kt_value, 55, 100)

(***************************************************************************)
(* Properties of the glucose unit conversion.                              *)
(***************************************************************************)
RoundTrip == cv_call = "convert_glucose_unit round trip"

Distance(a, b) == IF a >= b THEN a - b ELSE b - a

\* What the two roundings allow between a value and its round trip, in
\* hundredths of the unit A: half a mg/dL and 18 times half a hundredth of
\* mmol/L for mg/dL, half a hundredth of mmol/L and an eighteenth of half a
\* mg/dL for mmol/L.
Tolerance(unit) == IF unit.value = UNIT_MGDL THEN 59 ELSE 3

CameBack ==
  /\ gu_first.raised = "none"
  /\ gu_second.raised = "none"
  /\ Distance(gu_second.value, gu_value) <= Tolerance(gu_from)
  /\ (gu_from.value = gu_to.value
        => (gu_first.value = gu_value /\ gu_second.value = gu_value))

\* C34: for every value v and units A, B in {mg/dL, mmol/L},
\* convert_glucose_unit(convert_glucose_unit(v, A, B), B, A) equals v within
\* the rounding tolerance (mmol/L rounded to 2 decimals, mg/dL rounded to 0
\* decimals), and converting with A equal to B returns v unchanged.
C34_AsStated == RoundTrip => CameBack

\* The units being the constants UNIT_MGDL and UNIT_MMOLL themselves, the
\* round trip comes back within the tolerance.
C34_RoundTripOfConstants ==
  (RoundTrip /\ gu_from.constant /\ gu_to.constant) => CameBack

\* 100 mg/dL, the unit a string 'mg/dL' that is not the constant, is taken
\* for mmol/L and becomes 1800, and 32400 on the way back.
C34_IdentityMissed ==
  /\ RoundTrip
  /\ gu_value = 10000
  /\ gu_from = StrObject(UNIT_MGDL, FALSE)
  /\ gu_to.value = UNIT_MMOLL
  /\ gu_first.value = 180000
  /\ gu_second.value = 3240000

\* 100 mg/dL is 5.56 mmol/L and 100 mg/dL again, the units being the
\* constants.
C34_HundredComesBack ==
  /\ RoundTrip
  /\ gu_value = 10000
  /\ gu_from = StrObject(UNIT_MGDL, TRUE)
  /\ gu_to = StrObject(UNIT_MMOLL, TRUE)
  /\ gu_first.value = 556
  /\ gu_second.value = 10000

\* 5.52 mmol/L is 99 mg/dL and 5.50 mmol/L on the way back.
C34_NotExact ==
  /\ RoundTrip
  /\ gu_value = 552
  /\ gu_from = StrObject(UNIT_MMOLL, TRUE)
  /\ gu_first.value = 9900
  /\ gu_second.value = 550

(***************************************************************************)
(* Properties of the Verio timestamps.                                     *)
(***************************************************************************)
TimestampCalls == {"_convert_timestamp", "VERIO_TIMESTAMP"}

\* The days from 1970-01-01 to the date year-month-day.
DayOfDate(year, month, day) ==
  LET y   == IF month <= 2 THEN year - 1 ELSE year
      era == y \div 400
      yoe == y % 400
      mp  == IF month > 2 THEN month - 3 ELSE month + 9
      doy == ((153 * mp + 2) \div 5) + day - 1
      doe == yoe * 365 + (yoe \div 4) - (yoe \div 100) + doy
  IN  era * 146097 + doe - 719468

\* The seconds from 1970-01-01 00:00:00 to a date and time.
SecondsOf(dt) ==
  86400 * DayOfDate(dt[1], dt[2], dt[3]) + 3600 * dt[4] + 60 * dt[5] + dt[6]

\* The seconds from 1970-01-01 00:00:00 to 2010-01-01 00:00:00.
SecondsTo2010 == SecondsOf(<<2010, 1, 1, 0, 0, 0>>)

\* C35: Verio timestamps are seconds counted from 2010-01-01 00:00:00: the
\* raw value 0 decodes to 2010-01-01 00:00:00, and a raw value t to that
\* instant plus t seconds.
C35_AsStated ==
  cv_call \in TimestampCalls =>
    /\ (ts_raw = 0 => ts_datetime = <<2010, 1, 1, 0, 0, 0>>)
    /\ SecondsOf(ts_datetime) = SecondsTo2010 + ts_raw

\* What the code does: the raw value 0 decodes to 2000-01-01 00:00:00, and a
\* raw value t to that instant plus t seconds.
C35_CountsFrom2000 ==
  cv_call \in TimestampCalls =>
    /\ (ts_raw = 0 => ts_datetime = <<2000, 1, 1, 0, 0, 0>>)
    /\ SecondsOf(ts_datetime) = SecondsOf(<<2000, 1, 1, 0, 0, 0>>) + ts_raw

\* The raw value 0 has been decoded, to the first second of 2000.
C35_ZeroDecoded ==
  /\ cv_call = "_convert_timestamp"
  /\ ts_raw = 0
  /\ ts_datetime = <<2000, 1, 1, 0, 0, 0>>

\* The first second of 2010 is the raw value 315619200.
C35_TenYearsOn ==
  /\ cv_call = "VERIO_TIMESTAMP"
  /\ ts_raw = 315619200
  /\ ts_datetime = <<2010, 1, 1, 0, 0, 0>>

(***************************************************************************)
(* Properties of the checksum errors.                                      *)
(***************************************************************************)
\* The checksum the frame carries, as its layout places it: two hexadecimal
\* digits before CR LF, the last two bytes low byte first, the two bytes
\* that end the message low byte first, eight hexadecimal digits.
CarriedChecksum ==
  CASE ck_decoder = "lis1a" ->
         16 * HexDigit(ck_frame[Len(ck_frame) - 3])
         + HexDigit(ck_frame[Len(ck_frame) - 2])
    [] ck_decoder = "ultraeasy" ->
         ck_frame[Len(ck_frame) - 1] + 256 * ck_frame[Len(ck_frame)]
    [] ck_decoder = "verio2015" ->
         ck_frame[ck_frame[2] + 256 * ck_frame[3] - 1]
         + 256 * ck_frame[ck_frame[2] + 256 * ck_frame[3]]
    [] ck_decoder = "freestyle" -> HexValue(ck_frame[2])

\* The checksum of the frame's contents: the sum modulo 256 from the frame
\* number to the terminator, the CRC of all but the last two bytes, the CRC
\* of the message but its last two bytes, the sum of the message.
ComputedChecksum ==
  CASE ck_decoder = "lis1a" ->
         SumBytes(SubSeq(ck_frame, 2, Len(ck_frame) - 4)) % 256
    [] ck_decoder = "ultraeasy" ->
         crc_ccitt_of(SubSeq(ck_frame, 1, Len(ck_frame) - 2))
    [] ck_decoder = "verio2015" ->
         crc_ccitt_of(SubSeq(ck_frame, 1, ck_frame[2] + 256 * ck_frame[3] - 2))
    [] ck_decoder = "freestyle" -> SumBytes(ck_frame[1])

ChecksumRaised == ck_error.raised = "InvalidChecksum"

InOrder ==
  /\ ck_error.wire = CarriedChecksum
  /\ ck_error.calculated = ComputedChecksum

\* C36: every InvalidChecksum raised by a frame decoder (LIS1-A transfer
\* frame, UltraEasy packet, Verio 2015 register, FreeStyle text reply)
\* reports as its wire value the checksum carried in the frame and as its
\* calculated value the checksum computed from the frame's contents; the two
\* are never swapped.
C36_AsStated == ChecksumRaised => InOrder

\* The Verio 2015 register and the FreeStyle text reply report the two in
\* order.
C36_InOrderForTwo ==
  (ChecksumRaised /\ ck_decoder \in {"verio2015", "freestyle"}) => InOrder

\* The LIS1-A frame parser and the UltraEasy packet report the two swapped.
C36_SwappedForTwo ==
  (ChecksumRaised /\ ck_decoder \in {"lis1a", "ultraeasy"})
    => /\ ck_error.wire = ComputedChecksum
       /\ ck_error.calculated = CarriedChecksum

\* The frame of the test, STX 1 SOMETEXT ETX 0 0 CR LF: 0xAD, the sum, is
\* reported as on the wire and 0, what the frame carries, as calculated.
C36_LisSwapped ==
  /\ ck_decoder = "lis1a"
  /\ ck_frame = <<2, 49, 83, 79, 77, 69, 84, 69, 88, 84, 3, 48, 48, 13, 10>>
  /\ ck_error = InvalidChecksum(173, 0)

\* An UltraEasy packet with a wrong checksum has been refused.
C36_UltraEasySwapped ==
  /\ ck_decoder = "ultraeasy"
  /\ ChecksumRaised
  /\ ck_error.wire # CarriedChecksum

\* A Verio 2015 register with a wrong checksum has been refused.
C36_VerioInOrder ==
  /\ ck_decoder = "verio2015"
  /\ ChecksumRaised
  /\ InOrder

\* A FreeStyle reply with a wrong checksum has been refused.
C36_FreeStyleInOrder ==
  /\ ck_decoder = "freestyle"
  /\ ChecksumRaised
  /\ InOrder

(***************************************************************************)
(* Properties of the UltraEasy session of connect() and exchanges.         *)
(***************************************************************************)
\* The counters are in step with the number of exchanges made.
InLockstep ==
  /\ expect_receive_ = (ue_k % 2 = 1)
  /\ sent_counter_ = ~expect_receive_

\* The requests of the last operation carried the counters' values of the
\* moment they were sent as their sequence and expect-receive bits.
RequestsCarryCounters ==
  \A i \in SendCalls :
    ~ue_log[i].acknowledge =>
      /\ SequenceBit(ue_log[i].frame) = ue_log[i].sc_before
      /\ TestBit(ue_log[i].frame[3], BIT_EXPECT_RECEIVE) = ue_log[i].er_before

\* C37: on a fresh Device, after connect() and k complete successful
\* exchanges expect_receive_ is the parity of k and sent_counter_ is its
\* negation, and every request carries the counters' values of the moment it
\* is sent as its sequence-number and expect-receive bits.
C37_AsStated ==
  /\ ue_k >= 0 => InLockstep
  /\ RequestsCarryCounters

\* Where connect() read an ACK frame in reply, the counters are in step
\* after any number of complete exchanges.
C37_LockstepAfterAck ==
  (ue_k >= 0 /\ ue_handshake = "ack") => InLockstep

\* Where connect() read a data frame in reply, the counters are out of step
\* from then on: expect_receive_ is the negation of the parity of k.
C37_OutOfStepAfterData ==
  (ue_k >= 0 /\ ue_handshake = "data") =>
    /\ expect_receive_ = (ue_k % 2 = 0)
    /\ sent_counter_ = (ue_k % 2 = 0)

\* Every request carries the counters of the moment it is sent.
C37_RequestsCarryCounters == RequestsCarryCounters

\* connect() read an ACK and the longest session of exchanges was made.
C37_LongestSession ==
  /\ ue_k = MaxExchanges
  /\ ue_handshake = "ack"
  /\ ue_op = "get_version"

\* connect() returned after a data frame, which it acknowledged.
C37_ConnectReadData ==
  /\ ue_k = 0
  /\ ue_handshake = "data"
  /\ expect_receive_
  /\ sent_counter_

(***************************************************************************)
(* Properties of the Contour's retransmitted frames.                       *)
(***************************************************************************)
\* The frame checkframe was called with in the last step of sync().
CheckedFrame == Drop(decode(cu_io.reply).value, find(decode(cu_io.reply).value, 2))

\* The last step of sync() called checkframe with a frame of the record
\* format whose number is that of the frame accepted last: currecno, which
\* the accepted frame left one further, is the successor of its number.
IsRetransmission ==
  /\ cu_io.op = "reply"
  /\ cu_io.checked # "none"
  /\ cu_accepted # <<>>
  /\ RecordFormatMatch(CheckedFrame).matched
  /\ cu_io.recno = <<(FrameNumberIn(CheckedFrame) + 1) % 8>>

\* checkframe returned None and left currecno; sync() wrote ACK and went on
\* to read, yielding nothing.
AnsweredAsDuplicate ==
  /\ cu_io.checked = "duplicate"
  /\ currecno = cu_io.recno
  /\ cu_io.how = "continue"
  /\ WroteByte(ACK)
  /\ cu_pc = "reading"

\* The values yielded are the texts accepted, in order, each once, short of
\* those accepted last.
YieldedOnce ==
  /\ Len(cu_yielded) <= Len(cu_accepted)
  /\ cu_yielded = SubSeq(cu_accepted, 1, Len(cu_yielded))

\* C38: a frame whose number is that of the frame accepted last, for every
\* number 0..7, is taken as a retransmission: checkframe returns None, does
\* not raise and leaves currecno, sync() answers it with ACK and does not
\* yield it; each accepted text is yielded at most once.
C38_AsStated ==
  /\ IsRetransmission => AnsweredAsDuplicate
  /\ YieldedOnce

\* In the two Contour USB classes a retransmission of a frame numbered 0 to
\* 6 is answered as a duplicate, and no text is yielded twice.
C38_BelowSeven ==
  /\ (/\ IsRetransmission
      /\ cu_driver # DRIVER_NEXT_ONE
      /\ FrameNumberIn(CheckedFrame) # 7) => AnsweredAsDuplicate
  /\ YieldedOnce

\* The frame numbered 7 sent again is refused: checkframe compares 7 + 1
\* with currecno 0 and raises FrameError for the number.
C38_SevenRefused ==
  (IsRetransmission /\ FrameNumberIn(CheckedFrame) = 7)
    => /\ cu_io.checked = "FrameError"
       /\ currecno = <<0>>
       /\ IF cu_driver = SUPPORT_USB
            THEN cu_pc = "reading" /\ WroteByte(NAK)
          ELSE cu_pc = "raised"

\* In the Contour Next One a retransmission of a frame numbered 0 to 6 ends
\* sync() with TypeError: the None of checkframe goes to the match of the
\* terminator record.
C38_NextOneRaises ==
  (/\ IsRetransmission
   /\ cu_driver = DRIVER_NEXT_ONE
   /\ FrameNumberIn(CheckedFrame) # 7)
    => /\ cu_io.checked = "duplicate"
       /\ cu_io.how = "TypeError"
       /\ cu_pc = "raised"
       /\ cu_io.wrote = <<>>

\* The frame numbered 3, accepted and yielded, came again and was answered
\* with ACK.
C38_ThreeAgain ==
  /\ IsRetransmission
  /\ cu_driver = SUPPORT_USB
  /\ FrameNumberIn(CheckedFrame) = 3
  /\ cu_yielded = <<TextOf(3)>>
  /\ AnsweredAsDuplicate

\* The frame numbered 7, accepted and yielded, came again and was answered
\* with NAK.
C38_SevenAgain ==
  /\ IsRetransmission
  /\ cu_driver = SUPPORT_USB
  /\ FrameNumberIn(CheckedFrame) = 7
  /\ cu_yielded = <<TextOf(7)>>
  /\ cu_io.checked = "FrameError"
  /\ WroteByte(NAK)

\* The Contour Next One met a frame sent twice.
C38_NextOneAgain ==
  /\ IsRetransmission
  /\ cu_driver = DRIVER_NEXT_ONE
  /\ cu_io.how = "TypeError"

(***************************************************************************)
(* Properties of the modes of the Contour's sync().                        *)
(***************************************************************************)
\* The modes in the order sync() goes through them.
ModeRank(mode) ==
  CASE mode = mode_establish -> 1
    [] mode = mode_data -> 2
    [] mode = mode_precommand -> 3
    [] OTHER -> 0

\* currecno is not set, or is a frame number.
RecnoInRange == currecno \in {None, NoAttribute} \cup {<<n>> : n \in 0..7}

\* A step of a run of the sync() of the two Contour USB classes after its
\* call: a reply handled, or the caller asking for the next value.
C39_Step ==
  (cu_driver \in {SUPPORT_USB, DRIVER_USB} /\ cu_io'.op \in {"reply", "next"}) =>
    /\ ModeRank(state') >= ModeRank(state)
    /\ state' \in {mode_establish, mode_data, mode_precommand}
    /\ cu_accepted # <<>> => state' # mode_establish
    /\ cu_accepted' # <<>> => state' # mode_establish
    /\ cu_pc' = "yielded" =>
         /\ state' = mode_data
         /\ WroteByte(ACK)'
         /\ cu_io'.checked = "accepted"
         /\ cu_yielded' = Append(cu_yielded, cu_accepted'[Len(cu_accepted')])
    /\ cu_pc' # "yielded" => cu_yielded' = cu_yielded
    /\ RecnoInRange'

\* C39: in a run of the Contour USB sync() the mode only moves forward, establish to data
\* to precommand: once a frame was accepted the state is not establish
\* again, command mode is never entered, a frame is yielded only in data
\* mode and only after the ACK for it was written, and currecno is unset or
\* within 0..7.
C39_ModesForward == [][C39_Step]_vars

\* A run went through the three modes: the frames 7 and 0 were accepted,
\* acknowledged and yielded in data mode, and <EOT> ended it in precommand.
C39_Witness ==
  /\ cu_driver = SUPPORT_USB
  /\ cu_pc = "done"
  /\ state = mode_precommand
  /\ cu_io.mode = mode_data
  /\ cu_yielded = <<TextOf(7), TextOf(0)>>
  /\ currecno = <<1>>

(***************************************************************************)
(* Properties of the order in which get_readings yields.                   *)
(***************************************************************************)
\* The rows that make a reading, up to the first that raises.
ReadingRows(outcomes) ==
  {k \in 1..Len(outcomes) :
     /\ \A j \in 1..k : outcomes[j].raised = "none"
     /\ outcomes[k].value # NoReading}

\* The rows of the reply to `command` of which a reading was yielded.
RowsYielded(yielded, command) ==
  {yielded[i].row : i \in {j \in 1..Len(yielded) : yielded[j].command = command}}

\* Every reading of the rows of $history? has been yielded.
HistoryExhausted(outcomes, yielded) ==
  /\ \A k \in 1..Len(outcomes) : outcomes[k].raised = "none"
  /\ ReadingRows(outcomes) = RowsYielded(yielded, HISTORY)

\* Of the reply to `command`, the readings yielded are those of its rows,
\* the rows in their order and none skipped.
RowsInOrder(outcomes, yielded, command) ==
  \A i \in 1..Len(yielded) :
    yielded[i].command = command =>
      /\ yielded[i].row \in ReadingRows(outcomes)
      /\ yielded[i].reading = outcomes[yielded[i].row].value
      /\ \A k \in ReadingRows(outcomes) :
           k < yielded[i].row => k \in RowsYielded(yielded, command)
      /\ \A j \in 1..Len(yielded) :
           (i < j /\ yielded[j].command = command)
             => yielded[i].row < yielded[j].row

\* $arresult? is among the commands sent.
ArresultSent(sent) == \E i \in 1..Len(sent) : sent[i] = ARRESULT

\* What was yielded so far: readings of $history? and then readings of
\* $arresult?, each in the order of its rows; $arresult? is sent once, after
\* $history?, and only when every reading of $history? has been yielded.
HistoryBeforeArresult(history, arresult, sent, yielded) ==
  /\ \A i, j \in 1..Len(yielded) :
       (i < j /\ yielded[i].command = ARRESULT) => yielded[j].command = ARRESULT
  /\ RowsInOrder(history, yielded, HISTORY)
  /\ RowsInOrder(arresult, yielded, ARRESULT)
  /\ sent \in {<<>>, <<HISTORY>>, <<HISTORY, ARRESULT>>}
  /\ ArresultSent(sent) => HistoryExhausted(history, yielded)
  /\ ~ArresultSent(sent) => RowsYielded(yielded, ARRESULT) = {}

\* A step of the generator: a next() yields at most one reading, after
\* those yielded before, and the one that sends $arresult? yields no
\* reading of $history?, all of them having been yielded already.
C40_Step ==
  /\ \A history \in {Outcomes(HISTORY, lg_history'.value)},
        arresult \in {Outcomes(ARRESULT, lg_arresult'.value)} :
       HistoryBeforeArresult(history, arresult, lg_sent', lg_yielded')
  /\ \/ lg_yielded' = lg_yielded
     \/ /\ Len(lg_yielded') = Len(lg_yielded) + 1
        /\ SubSeq(lg_yielded', 1, Len(lg_yielded)) = lg_yielded
  /\ (ArresultSent(lg_sent') /\ ~ArresultSent(lg_sent))
       => /\ lg_pc \in {"created", HISTORY}
          /\ RowsYielded(lg_yielded', HISTORY) = RowsYielded(lg_yielded, HISTORY)

C40_SameAsWhole ==
  lg_pc \in {"done", "raised"} =>
    \A whole \in {Libre_get_readings(lg_history, lg_arresult)} :
      /\ [i \in 1..Len(lg_yielded) |-> lg_yielded[i].reading] = whole.value
      /\ lg_raised = whole.raised

C40_Suspended ==
  /\ lg_pc = HISTORY
  /\ lg_sent = <<HISTORY>>
  /\ Len(lg_yielded) = 1
  /\ Len(lg_history.value) = 3
  /\ lg_history.value[2] = HistoryRecord(0)

====
